---------------------------- MODULE Spec2Model ----------------------------
(***************************************************************************)
(* Planning-poker room API (netlify/functions/api/index.ts) over the       *)
(* key-value store of netlify/functions/api/db.ts.                         *)
(*                                                                         *)
(* Every request handler is "load the whole room document, compute, save   *)
(* the whole document, publish".  Each await on the store is one step of   *)
(* a worker, so concurrent requests interleave exactly at the store calls. *)
(*                                                                         *)
(* Strings that the code inspects character by character (player ids,      *)
(* player names, room codes) are sequences of one-character strings, so    *)
(* trim(), toUpperCase() and the room-code regular expression are          *)
(* computed, not assumed.  Values the code only compares (votes, breakout  *)
(* room ids, error messages) are plain strings.                            *)
(***************************************************************************)
EXTENDS Integers, Sequences, FiniteSets, TLC

(***************************************************************************)
(* Strings                                                                 *)
(***************************************************************************)

\* A JSON field that is missing from the request body (typeof !== 'string').
Undefined == <<"<undefined>">>

IsString(s) == s # Undefined

\* String.prototype.length
StrLen(s) == Len(s)

Whitespace == {" "}

RECURSIVE TrimStart(_)
TrimStart(s) ==
    IF s # <<>> /\ Head(s) \in Whitespace THEN TrimStart(Tail(s)) ELSE s

RECURSIVE TrimEnd(_)
TrimEnd(s) ==
    IF s # <<>> /\ s[Len(s)] \in Whitespace
    THEN TrimEnd(SubSeq(s, 1, Len(s) - 1))
    ELSE s

\* String.prototype.trim
Trim(s) == TrimEnd(TrimStart(s))

\* const chars = 'ABCDEFGHIJKLMNOPQRSTUVWXYZ0123456789'
Chars ==
    << "A", "B", "C", "D", "E", "F", "G", "H", "I", "J", "K", "L", "M",
       "N", "O", "P", "Q", "R", "S", "T", "U", "V", "W", "X", "Y", "Z",
       "0", "1", "2", "3", "4", "5", "6", "7", "8", "9" >>

LowerChars ==
    << "a", "b", "c", "d", "e", "f", "g", "h", "i", "j", "k", "l", "m",
       "n", "o", "p", "q", "r", "s", "t", "u", "v", "w", "x", "y", "z" >>

CharSet == { Chars[i] : i \in 1..Len(Chars) }

UpperChar(c) ==
    IF \E i \in 1..Len(LowerChars) : LowerChars[i] = c
    THEN Chars[CHOOSE i \in 1..Len(LowerChars) : LowerChars[i] = c]
    ELSE c

\* String.prototype.toUpperCase
ToUpperCase(s) == [i \in 1..Len(s) |-> UpperChar(s[i])]

RoomCodeLen == 6
MaxNameLen == 50
MaxIdLen == 100
MaxPlayersPerRoom == 50
MaxCodeAttempts == 10
MinBreakouts == 2
MaxBreakouts == 10

\* generateRoomCode: six characters, each chars.charAt(floor(random * 36));
\* draws is the sequence of the six floor(random * 36) values.
generateRoomCode(draws) == [i \in 1..RoomCodeLen |-> Chars[draws[i] + 1]]

validatePlayerName(name) ==
    /\ IsString(name)
    /\ StrLen(Trim(name)) > 0
    /\ StrLen(Trim(name)) <= MaxNameLen

validatePlayerId(id) ==
    /\ IsString(id)
    /\ StrLen(id) > 0
    /\ StrLen(id) <= MaxIdLen

\* /^[A-Z0-9]{6}$/
validateRoomCode(code) ==
    /\ IsString(code)
    /\ StrLen(code) = RoomCodeLen
    /\ \A i \in 1..Len(code) : code[i] \in CharSet


(***************************************************************************)
(* Documents                                                               *)
(***************************************************************************)

\* An optional value: a missing field, a null returned by db.get.
None == <<>>
Some(x) == <<x>>

\* JSON null and a missing key, for values the code only compares.
Null == "<null>"
Missing == "<undefined>"

\* interface Player
Player(id, name, vote, isObserver, lastSeen) ==
    [id |-> id, name |-> name, vote |-> vote, isObserver |-> isObserver,
     lastSeen |-> lastSeen]

\* interface Room; creatorId and breakoutRooms are optional fields.
Room(code, players, revealed, createdAt, creatorId, breakoutRooms) ==
    [code |-> code, players |-> players, revealed |-> revealed,
     createdAt |-> createdAt, creatorId |-> creatorId,
     breakoutRooms |-> breakoutRooms]

\* interface BreakoutRoom
BreakoutRoom(id, name, code, players, revealed, createdAt) ==
    [id |-> id, name |-> name, code |-> code, players |-> players,
     revealed |-> revealed, createdAt |-> createdAt]

\* Truthiness of room.creatorId: present and not the empty string.
HasCreatorId(room) == room.creatorId # None /\ room.creatorId[1] # <<>>

\* Truthiness of room.breakoutRooms: present (an empty array is truthy).
HasBreakoutRooms(room) == room.breakoutRooms # None

\* The breakout rooms of a document, [] when the field is missing.
BreakoutsOf(room) ==
    IF HasBreakoutRooms(room) THEN room.breakoutRooms[1] ELSE <<>>

\* players.findIndex((p) => p.id === id), 1-based; 0 stands for -1.
FindPlayerIndex(players, id) ==
    IF \E i \in 1..Len(players) : players[i].id = id
    THEN CHOOSE i \in 1..Len(players) :
            /\ players[i].id = id
            /\ \A j \in 1..(i - 1) : players[j].id # id
    ELSE 0

\* breakoutRooms.findIndex((br) => br.id === id), 1-based; 0 stands for -1.
FindBreakoutIndex(brs, id) ==
    IF \E i \in 1..Len(brs) : brs[i].id = id
    THEN CHOOSE i \in 1..Len(brs) :
            /\ brs[i].id = id
            /\ \A j \in 1..(i - 1) : brs[j].id # id
    ELSE 0

\* players.filter((p) => p.id !== id)
WithoutPlayer(players, id) == SelectSeq(players, LAMBDA p : p.id # id)

\* A map that keeps every vote.
KeepVotes(players) == players

\* players.map((p) => ({ ...p, vote: null }))
ClearVotes(players) ==
    [i \in 1..Len(players) |-> [players[i] EXCEPT !.vote = Null]]

\* breakoutRooms.map((br) => ({...br, players: br.players.filter(...)}))
RemoveFromBreakouts(brs, id) ==
    [i \in 1..Len(brs) |->
        [brs[i] EXCEPT !.players = WithoutPlayer(brs[i].players, id)]]

\* A filter that keeps the breakout rooms nobody is left in.
KeepEmptyBreakouts(brs) == brs

\* breakoutRooms.filter((br) => br.players.length > 0)
PruneEmptyBreakouts(brs) == SelectSeq(brs, LAMBDA br : Len(br.players) > 0)

\* The "Ensure backward compatibility" block of a handler that backfills
\* both fields.
BackfillCreatorId(room) ==
    IF ~HasCreatorId(room) /\ Len(room.players) > 0
    THEN [room EXCEPT !.creatorId = Some(room.players[1].id)]
    ELSE room

BackfillBreakoutRooms(room) ==
    IF ~HasBreakoutRooms(room)
    THEN [room EXCEPT !.breakoutRooms = Some(<<>>)]
    ELSE room

Backfill(room) == BackfillBreakoutRooms(BackfillCreatorId(room))

\* A check that passes every player of the room.
isRoomMember(loaded, playerId) ==
    IF loaded = None THEN FALSE
    ELSE \E i \in 1..Len(loaded[1].players) :
            loaded[1].players[i].id = playerId

\* A check that passes the first player of the room, whatever its creatorId.
isFirstPlayer(loaded, playerId) ==
    IF loaded = None THEN FALSE
    ELSE Len(loaded[1].players) > 0 /\ loaded[1].players[1].id = playerId

\* isRoomCreator, on the document its own db.get returned.
isRoomCreator(loaded, playerId) ==
    IF loaded = None THEN FALSE
    ELSE LET room == loaded[1] IN
         IF HasCreatorId(room)
         THEN room.creatorId[1] = playerId
         ELSE Len(room.players) > 0 /\ room.players[1].id = playerId

\* A check that lets every vote value through.
AnyVote(vote) == FALSE

\* const validVotes = ['0', ..., null]; "coffee" stands for the coffee-cup
\* card, which the code only compares for equality.
validVotes == {"0", "1", "2", "3", "5", "8", "13", "21", "?", "coffee", Null}

\* vote !== null && !validVotes.includes(vote)
InvalidVote(vote) == vote # Null /\ vote \notin validVotes

\* votingPlayers.forEach((player, index) => assignments[index % n].push(player))
\* The round-robin that starts at the second breakout room.
RECURSIVE AssignFromShifted(_, _, _, _)
AssignFromShifted(votingPlayers, index, numBreakouts, assignments) ==
    IF index >= Len(votingPlayers) THEN assignments
    ELSE AssignFromShifted(votingPlayers, index + 1, numBreakouts,
            [assignments EXCEPT ![((index + 1) % numBreakouts) + 1] =
                Append(@, votingPlayers[index + 1])])

\* players.forEach((player, index) => assignments[index % n].push(player))
RECURSIVE AssignFrom(_, _, _, _)
AssignFrom(votingPlayers, index, numBreakouts, assignments) ==
    IF index >= Len(votingPlayers) THEN assignments
    ELSE AssignFrom(votingPlayers, index + 1, numBreakouts,
            [assignments EXCEPT ![(index % numBreakouts) + 1] =
                Append(@, votingPlayers[index + 1])])

\* No filter: observers are counted and assigned as well.
EveryPlayer(players) == players

\* players.filter((p) => !p.isObserver)
VotingPlayers(players) == SelectSeq(players, LAMBDA p : ~p.isObserver)

assignPlayersToBreakoutRooms(players, numBreakouts) ==
    AssignFrom(VotingPlayers(players), 0, numBreakouts,
               [b \in 1..numBreakouts |-> <<>>])

Digits == << "0", "1", "2", "3", "4", "5", "6", "7", "8", "9" >>

\* The decimal digits of n, 0 <= n <= 99, as template literals print them.
NumStr(n) ==
    IF n < 10 THEN << Digits[n + 1] >>
    ELSE << Digits[(n \div 10) + 1], Digits[(n % 10) + 1] >>

Min(a, b) == IF a <= b THEN a ELSE b


(***************************************************************************)
(* Handlers: what one request computes from the document it loaded.       *)
(* An outcome is the response and the store call the handler goes on to   *)
(* make: write = "none" (respond at once), "set" (db.set, then publish),  *)
(* "del" (db.del, then publish) or "auth" (the handler next awaits        *)
(* isRoomCreator, which reads the store again).                           *)
(***************************************************************************)

Reject(status, error) ==
    [status |-> status, error |-> error, write |-> "none", key |-> <<>>,
     doc |-> None, body |-> None]

\* await db.set(key, room); await publishRoomUpdate(key, room);
\* return jsonResponse({ room })
Put(key, room) ==
    [status |-> 200, error |-> "", write |-> "set", key |-> key,
     doc |-> Some(room), body |-> Some(room)]

\* await db.del(key); await publishRoomUpdate(key, room);
\* return jsonResponse({ success: true })
Delete(key, room) ==
    [status |-> 200, error |-> "", write |-> "del", key |-> key,
     doc |-> Some(room), body |-> None]

\* The handler goes on to await isRoomCreator with this room in hand.
ThenAuth(key, room) ==
    [status |-> 200, error |-> "", write |-> "auth", key |-> key,
     doc |-> Some(room), body |-> None]

\* return jsonResponse({ room }) without any store write
Answer(room) ==
    [status |-> 200, error |-> "", write |-> "none", key |-> <<>>,
     doc |-> None, body |-> Some(room)]

\* The Player literal of create-room and join-room.
NewPlayer(req, now) ==
    Player(Trim(req.playerId), Trim(req.playerName), Null, FALSE, now)

\* The Room literal of create-room and join-room.
NewRoom(code, req, now) ==
    Room(code, << NewPlayer(req, now) >>, FALSE, now,
         Some(Trim(req.playerId)), Some(<<>>))

\* POST /create-room without the check after the code loop.
CreateRoomHandlerUnchecked(req, roomCode, existingRoom, now) ==
    Put(roomCode, NewRoom(roomCode, req, now))

\* POST /create-room, once the code loop has ended with roomCode and the
\* document existingRoom that its last db.get returned.
CreateRoomHandler(req, roomCode, existingRoom, now) ==
    IF existingRoom # None
    THEN Reject(500, "Failed to generate unique room code")
    ELSE Put(roomCode, NewRoom(roomCode, req, now))

\* The cap tested with > in place of >=.
RoomIsFullOffByOne(room) == Len(room.players) > MaxPlayersPerRoom

\* if (room.players.length >= 50)
RoomIsFull(room) == Len(room.players) >= MaxPlayersPerRoom

\* POST /join-room that refuses a code under which nothing is stored.
JoinRoomHandlerNoCreate(req, loaded, now) ==
    IF \/ ~validateRoomCode(req.roomCode)
       \/ ~validatePlayerName(req.playerName)
       \/ ~validatePlayerId(req.playerId)
    THEN Reject(400, "Room code, player name, and ID required")
    ELSE IF loaded = None THEN Reject(404, "Room not found")
    ELSE LET room == Backfill(loaded[1])
             existingPlayerIndex == FindPlayerIndex(room.players, req.playerId)
         IN  IF existingPlayerIndex > 0
             THEN Put(req.roomCode,
                      [room EXCEPT
                         !.players[existingPlayerIndex].lastSeen = now,
                         !.players[existingPlayerIndex].name =
                             Trim(req.playerName)])
             ELSE IF RoomIsFull(room)
             THEN Reject(400, "Room is full")
             ELSE Put(req.roomCode,
                      [room EXCEPT
                         !.players = Append(@, NewPlayer(req, now))])

\* A join-room that applies the player limit before looking for the caller
\* among the players.
JoinRoomHandlerCapFirst(req, loaded, now) ==
    IF \/ ~validateRoomCode(req.roomCode)
       \/ ~validatePlayerName(req.playerName)
       \/ ~validatePlayerId(req.playerId)
    THEN Reject(400, "Room code, player name, and ID required")
    ELSE IF loaded = None
    THEN Put(ToUpperCase(req.roomCode),
             NewRoom(ToUpperCase(req.roomCode), req, now))
    ELSE LET room == Backfill(loaded[1])
             existingPlayerIndex == FindPlayerIndex(room.players, req.playerId)
         IN  IF RoomIsFull(room)
             THEN Reject(400, "Room is full")
             ELSE IF existingPlayerIndex > 0
             THEN Put(req.roomCode,
                      [room EXCEPT
                         !.players[existingPlayerIndex].lastSeen = now,
                         !.players[existingPlayerIndex].name =
                             Trim(req.playerName)])
             ELSE Put(req.roomCode,
                      [room EXCEPT
                         !.players = Append(@, NewPlayer(req, now))])

\* POST /join-room
JoinRoomHandler(req, loaded, now) ==
    IF \/ ~validateRoomCode(req.roomCode)
       \/ ~validatePlayerName(req.playerName)
       \/ ~validatePlayerId(req.playerId)
    THEN Reject(400, "Room code, player name, and ID required")
    ELSE IF loaded = None
    THEN Put(ToUpperCase(req.roomCode),
             NewRoom(ToUpperCase(req.roomCode), req, now))
    ELSE LET room == Backfill(loaded[1])
             existingPlayerIndex == FindPlayerIndex(room.players, req.playerId)
         IN  IF existingPlayerIndex > 0
             THEN Put(req.roomCode,
                      [room EXCEPT
                         !.players[existingPlayerIndex].lastSeen = now,
                         !.players[existingPlayerIndex].name =
                             Trim(req.playerName)])
             ELSE IF RoomIsFull(room)
             THEN Reject(400, "Room is full")
             ELSE Put(req.roomCode,
                      [room EXCEPT
                         !.players = Append(@, NewPlayer(req, now))])

\* GET /room/:code
GetRoomHandler(req, loaded) ==
    IF ~validateRoomCode(req.roomCode)
    THEN Reject(400, "Invalid room code")
    ELSE IF loaded = None THEN Reject(404, "Room not found")
    ELSE Answer(Backfill(loaded[1]))

\* POST /vote that takes no vote once the round is revealed.
VoteHandlerClosedAfterReveal(req, loaded, now) ==
    IF ~validateRoomCode(req.roomCode) \/ ~validatePlayerId(req.playerId)
    THEN Reject(400, "Room code and player ID required")
    ELSE IF InvalidVote(req.vote) THEN Reject(400, "Invalid vote value")
    ELSE IF loaded = None THEN Reject(404, "Room not found")
    ELSE LET room == loaded[1]
             playerIndex == FindPlayerIndex(room.players, req.playerId)
         IN  IF playerIndex = 0
             THEN Reject(404, "Player not found in room")
             ELSE IF room.revealed
             THEN Reject(400, "Invalid vote value")
             ELSE Put(req.roomCode,
                      [room EXCEPT !.players[playerIndex].vote = req.vote,
                                   !.players[playerIndex].lastSeen = now])

\* A vote that stamps the room with the time of the vote.
VoteHandlerRestamps(req, loaded, now) ==
    IF ~validateRoomCode(req.roomCode) \/ ~validatePlayerId(req.playerId)
    THEN Reject(400, "Room code and player ID required")
    ELSE IF InvalidVote(req.vote) THEN Reject(400, "Invalid vote value")
    ELSE IF loaded = None THEN Reject(404, "Room not found")
    ELSE LET room == loaded[1]
             playerIndex == FindPlayerIndex(room.players, req.playerId)
         IN  IF playerIndex = 0
             THEN Reject(404, "Player not found in room")
             ELSE Put(req.roomCode,
                      [room EXCEPT !.players[playerIndex].vote = req.vote,
                                   !.players[playerIndex].lastSeen = now,
                                   !.createdAt = now])

\* POST /vote
VoteHandler(req, loaded, now) ==
    IF ~validateRoomCode(req.roomCode) \/ ~validatePlayerId(req.playerId)
    THEN Reject(400, "Room code and player ID required")
    ELSE IF InvalidVote(req.vote) THEN Reject(400, "Invalid vote value")
    ELSE IF loaded = None THEN Reject(404, "Room not found")
    ELSE LET room == loaded[1]
             playerIndex == FindPlayerIndex(room.players, req.playerId)
         IN  IF playerIndex = 0
             THEN Reject(404, "Player not found in room")
             ELSE Put(req.roomCode,
                      [room EXCEPT !.players[playerIndex].vote = req.vote,
                                   !.players[playerIndex].lastSeen = now])

\* POST /reveal that flips the flag instead of setting it.
RevealHandlerToggles(req, loaded) ==
    IF ~validateRoomCode(req.roomCode)
    THEN Reject(400, "Room code required")
    ELSE IF loaded = None THEN Reject(404, "Room not found")
    ELSE Put(req.roomCode, [loaded[1] EXCEPT !.revealed = ~@])

\* POST /reveal
RevealHandler(req, loaded) ==
    IF ~validateRoomCode(req.roomCode)
    THEN Reject(400, "Room code required")
    ELSE IF loaded = None THEN Reject(404, "Room not found")
    ELSE Put(req.roomCode, [loaded[1] EXCEPT !.revealed = TRUE])

\* A reset that starts a new round in every breakout room as well.
ResetHandlerEverywhere(req, loaded) ==
    IF ~validateRoomCode(req.roomCode)
    THEN Reject(400, "Room code required")
    ELSE IF loaded = None THEN Reject(404, "Room not found")
    ELSE Put(req.roomCode,
             [loaded[1] EXCEPT
                 !.players = ClearVotes(@),
                 !.revealed = FALSE,
                 !.breakoutRooms =
                     IF @ = None THEN None
                     ELSE Some([b \in 1..Len(@[1]) |->
                                  [@[1][b] EXCEPT !.players = ClearVotes(@),
                                                  !.revealed = FALSE]])])

\* POST /reset
ResetHandler(req, loaded) ==
    IF ~validateRoomCode(req.roomCode)
    THEN Reject(400, "Room code required")
    ELSE IF loaded = None THEN Reject(404, "Room not found")
    ELSE Put(req.roomCode,
             [loaded[1] EXCEPT !.players = ClearVotes(@),
                               !.revealed = FALSE])

\* POST /leave that leaves the breakout rooms as they are.
LeaveHandlerKeepsBreakouts(req, loaded) ==
    IF ~validateRoomCode(req.roomCode) \/ ~validatePlayerId(req.playerId)
    THEN Reject(400, "Room code and player ID required")
    ELSE IF loaded = None THEN Reject(404, "Room not found")
    ELSE LET room == [loaded[1] EXCEPT
                        !.players = WithoutPlayer(@, req.playerId)]
         IN  IF Len(room.players) = 0
             THEN Delete(req.roomCode, room)
             ELSE Put(req.roomCode, room)

\* POST /leave that saves the room even when nobody is left in it.
LeaveHandlerSavesEmpty(req, loaded) ==
    IF ~validateRoomCode(req.roomCode) \/ ~validatePlayerId(req.playerId)
    THEN Reject(400, "Room code and player ID required")
    ELSE IF loaded = None THEN Reject(404, "Room not found")
    ELSE Put(req.roomCode,
             [loaded[1] EXCEPT !.players = WithoutPlayer(@, req.playerId)])

\* POST /leave
LeaveHandler(req, loaded) ==
    IF ~validateRoomCode(req.roomCode) \/ ~validatePlayerId(req.playerId)
    THEN Reject(400, "Room code and player ID required")
    ELSE IF loaded = None THEN Reject(404, "Room not found")
    ELSE LET left == [loaded[1] EXCEPT
                        !.players = WithoutPlayer(@, req.playerId)]
             room == IF HasBreakoutRooms(left)
                     THEN [left EXCEPT !.breakoutRooms =
                             Some(PruneEmptyBreakouts(
                                 RemoveFromBreakouts(@[1], req.playerId)))]
                     ELSE left
         IN  IF Len(room.players) = 0
             THEN Delete(req.roomCode, room)
             ELSE Put(req.roomCode, room)


\* A number of the request body: << n >> is the integer n, << n, t >> with
\* t in 1..9 is n + t/10, and None is a value that is not a number.
Fractional(n) == Len(n) > 1

\* typeof numBreakouts !== 'number' || numBreakouts < 2 || numBreakouts > 10
InvalidNumBreakouts(n) ==
    \/ n = None
    \/ n[1] < MinBreakouts
    \/ n[1] > MaxBreakouts
    \/ (n[1] = MaxBreakouts /\ Fractional(n))

\* typeof breakoutRoomId === 'string'
IsStringId(id) == id # Missing

\* POST /create-breakout-rooms, up to the call of isRoomCreator.
CreateBreakoutRoomsLoad(req, loaded) ==
    IF ~validateRoomCode(req.roomCode) \/ ~validatePlayerId(req.playerId)
    THEN Reject(400, "Room code and player ID required")
    ELSE IF InvalidNumBreakouts(req.numBreakouts)
    THEN Reject(400, "Number of breakout rooms must be between 2 and 10")
    ELSE IF loaded = None THEN Reject(404, "Room not found")
    ELSE ThenAuth(req.roomCode, Backfill(loaded[1]))

\* New breakout rooms put after the ones the room already has.
NewBreakoutRoomsAdded(room, roomCode, actualNumBreakouts, now, ids) ==
    LET assignments ==
            assignPlayersToBreakoutRooms(room.players, actualNumBreakouts)
    IN  BreakoutsOf(room) \o
        [i \in 1..actualNumBreakouts |->
            BreakoutRoom(ids[i],
                         << "Breakout Room " >> \o NumStr(i),
                         roomCode \o << "-", "B", "R" >> \o NumStr(i),
                         assignments[i], FALSE, now)]

\* The breakout rooms built by the loop over actualNumBreakouts; ids are
\* the results of the calls of generateBreakoutRoomId.
NewBreakoutRooms(room, roomCode, actualNumBreakouts, now, ids) ==
    LET assignments ==
            assignPlayersToBreakoutRooms(room.players, actualNumBreakouts)
    IN  [i \in 1..actualNumBreakouts |->
            BreakoutRoom(ids[i],
                         << "Breakout Room " >> \o NumStr(i),
                         roomCode \o << "-", "B", "R" >> \o NumStr(i),
                         assignments[i], FALSE, now)]

\* POST /create-breakout-rooms, from the answer of isRoomCreator on.
CreateBreakoutRoomsHandler(req, room, isCreator, now, ids) ==
    IF ~isCreator
    THEN Reject(403, "Only room creator can create breakout rooms")
    ELSE LET votingPlayers == VotingPlayers(room.players) IN
    IF Len(votingPlayers) < 2
    THEN Reject(400,
           "At least 2 voting players required to create breakout rooms")
    ELSE IF \/ room.revealed
            \/ \E i \in 1..Len(votingPlayers) : votingPlayers[i].vote # Null
    THEN Reject(400,
           "Cannot create breakout rooms during an active voting round")
    ELSE LET maxBreakouts == Len(votingPlayers) \div 2
             actualNumBreakouts == Min(req.numBreakouts[1], maxBreakouts)
         IN  IF actualNumBreakouts < 2
             THEN Reject(400,
                    "Not enough players to create breakout rooms (need at least 4 players)")
             ELSE IF Fractional(req.numBreakouts)
                     /\ req.numBreakouts[1] < maxBreakouts
             \* Math.min returned numBreakouts, and Array(numBreakouts)
             \* throws a RangeError that the handler's catch answers
             THEN Reject(500, "Invalid array length")
             ELSE Put(req.roomCode,
                      [room EXCEPT !.breakoutRooms =
                          Some(NewBreakoutRooms(room, req.roomCode,
                                   actualNumBreakouts, now, ids))])

\* POST /delete-breakout-rooms, up to the call of isRoomCreator.
DeleteBreakoutRoomsLoad(req, loaded) ==
    IF ~validateRoomCode(req.roomCode) \/ ~validatePlayerId(req.playerId)
    THEN Reject(400, "Room code and player ID required")
    ELSE IF loaded = None THEN Reject(404, "Room not found")
    ELSE ThenAuth(req.roomCode, loaded[1])

\* A delete-breakout-rooms that refuses while a breakout room is revealed
\* or holds a vote.
DeleteBreakoutRoomsHandlerQuietOnly(req, room, isCreator) ==
    IF ~isCreator
    THEN Reject(403, "Only room creator can delete breakout rooms")
    ELSE IF \E b \in 1..Len(BreakoutsOf(room)) :
               \/ BreakoutsOf(room)[b].revealed
               \/ \E i \in 1..Len(BreakoutsOf(room)[b].players) :
                     BreakoutsOf(room)[b].players[i].vote # Null
    THEN Reject(400, "Cannot delete breakout rooms during an active voting round")
    ELSE Put(req.roomCode, [room EXCEPT !.breakoutRooms = Some(<<>>)])

\* POST /delete-breakout-rooms, from the answer of isRoomCreator on.
DeleteBreakoutRoomsHandler(req, room, isCreator) ==
    IF ~isCreator
    THEN Reject(403, "Only room creator can delete breakout rooms")
    ELSE Put(req.roomCode, [room EXCEPT !.breakoutRooms = Some(<<>>)])

\* An update that writes the changed breakout room over every entry.
ReplaceEveryBreakout(brs, id, breakoutRoom) ==
    [i \in 1..Len(brs) |-> breakoutRoom]

\* room.breakoutRooms[breakoutIndex] = breakoutRoom, when breakoutIndex >= 0
ReplaceBreakout(brs, id, breakoutRoom) ==
    LET breakoutIndex == FindBreakoutIndex(brs, id)
    IN  IF breakoutIndex > 0
        THEN [brs EXCEPT ![breakoutIndex] = breakoutRoom]
        ELSE brs

\* A join-breakout-room whose newcomer enters the breakout room without a
\* vote.
JoinBreakoutRoomHandlerFreshVote(req, loaded) ==
    IF \/ ~validateRoomCode(req.roomCode)
       \/ ~validatePlayerId(req.playerId)
       \/ ~IsStringId(req.breakoutRoomId)
    THEN Reject(400, "Room code, player ID, and breakout room ID required")
    ELSE IF loaded = None THEN Reject(404, "Room not found")
    ELSE LET room == BackfillBreakoutRooms(loaded[1])
             brs == room.breakoutRooms[1]
             playerIndex == FindPlayerIndex(room.players, req.playerId)
             foundIndex == FindBreakoutIndex(brs, req.breakoutRoomId)
         IN  IF playerIndex = 0
             THEN Reject(404, "Player not found in room")
             ELSE IF foundIndex = 0
             THEN Reject(404, "Breakout room not found")
             ELSE LET player == [room.players[playerIndex] EXCEPT
                                    !.vote = Null]
                      found == brs[foundIndex]
                      breakoutRoom ==
                          IF \E i \in 1..Len(found.players) :
                                 found.players[i].id = req.playerId
                          THEN found
                          ELSE [found EXCEPT !.players = Append(@, player)]
                  IN  Put(req.roomCode,
                          [room EXCEPT !.breakoutRooms =
                              Some(ReplaceBreakout(
                                  RemoveFromBreakouts(brs, req.playerId),
                                  req.breakoutRoomId, breakoutRoom))])

\* POST /join-breakout-room
JoinBreakoutRoomHandler(req, loaded) ==
    IF \/ ~validateRoomCode(req.roomCode)
       \/ ~validatePlayerId(req.playerId)
       \/ ~IsStringId(req.breakoutRoomId)
    THEN Reject(400, "Room code, player ID, and breakout room ID required")
    ELSE IF loaded = None THEN Reject(404, "Room not found")
    ELSE LET room == BackfillBreakoutRooms(loaded[1])
             brs == room.breakoutRooms[1]
             playerIndex == FindPlayerIndex(room.players, req.playerId)
             foundIndex == FindBreakoutIndex(brs, req.breakoutRoomId)
         IN  IF playerIndex = 0
             THEN Reject(404, "Player not found in room")
             ELSE IF foundIndex = 0
             THEN Reject(404, "Breakout room not found")
             ELSE LET player == room.players[playerIndex]
                      \* the object found before the others were rebuilt
                      found == brs[foundIndex]
                      breakoutRoom ==
                          IF \E i \in 1..Len(found.players) :
                                 found.players[i].id = req.playerId
                          THEN found
                          ELSE [found EXCEPT !.players = Append(@, player)]
                  IN  Put(req.roomCode,
                          [room EXCEPT !.breakoutRooms =
                              Some(ReplaceBreakout(
                                  RemoveFromBreakouts(brs, req.playerId),
                                  req.breakoutRoomId, breakoutRoom))])

\* A leave-breakout-room that is open to the players of the room only.
LeaveBreakoutRoomHandlerMembersOnly(req, loaded) ==
    IF ~validateRoomCode(req.roomCode) \/ ~validatePlayerId(req.playerId)
    THEN Reject(400, "Room code and player ID required")
    ELSE IF loaded = None THEN Reject(404, "Room not found")
    ELSE LET room == BackfillBreakoutRooms(loaded[1])
         IN  IF FindPlayerIndex(room.players, req.playerId) = 0
             THEN Reject(404, "Player not found in room")
             ELSE Put(req.roomCode,
                      [room EXCEPT !.breakoutRooms =
                          Some(RemoveFromBreakouts(@[1], req.playerId))])

\* POST /leave-breakout-room
LeaveBreakoutRoomHandler(req, loaded) ==
    IF ~validateRoomCode(req.roomCode) \/ ~validatePlayerId(req.playerId)
    THEN Reject(400, "Room code and player ID required")
    ELSE IF loaded = None THEN Reject(404, "Room not found")
    ELSE LET room == BackfillBreakoutRooms(loaded[1])
         IN  Put(req.roomCode,
                 [room EXCEPT !.breakoutRooms =
                     Some(RemoveFromBreakouts(@[1], req.playerId))])

\* POST /breakout-room/vote
BreakoutVoteHandler(req, loaded, now) ==
    IF \/ ~validateRoomCode(req.roomCode)
       \/ ~validatePlayerId(req.playerId)
       \/ ~IsStringId(req.breakoutRoomId)
    THEN Reject(400, "Room code, breakout room ID, and player ID required")
    ELSE IF InvalidVote(req.vote) THEN Reject(400, "Invalid vote value")
    ELSE IF loaded = None THEN Reject(404, "Room not found")
    ELSE LET room == BackfillBreakoutRooms(loaded[1])
             brs == room.breakoutRooms[1]
             foundIndex == FindBreakoutIndex(brs, req.breakoutRoomId)
         IN  IF foundIndex = 0
             THEN Reject(404, "Breakout room not found")
             ELSE LET playerIndex ==
                          FindPlayerIndex(brs[foundIndex].players,
                                          req.playerId)
                  IN  IF playerIndex = 0
                      THEN Reject(404, "Player not found in breakout room")
                      ELSE Put(req.roomCode,
                             [room EXCEPT !.breakoutRooms =
                                Some(ReplaceBreakout(brs, req.breakoutRoomId,
                                  [brs[foundIndex] EXCEPT
                                     !.players[playerIndex].vote = req.vote,
                                     !.players[playerIndex].lastSeen = now]))])

\* POST /breakout-room/reveal
BreakoutRevealHandler(req, loaded) ==
    IF ~validateRoomCode(req.roomCode) \/ ~IsStringId(req.breakoutRoomId)
    THEN Reject(400, "Room code and breakout room ID required")
    ELSE IF loaded = None THEN Reject(404, "Room not found")
    ELSE LET room == BackfillBreakoutRooms(loaded[1])
             brs == room.breakoutRooms[1]
             foundIndex == FindBreakoutIndex(brs, req.breakoutRoomId)
         IN  IF foundIndex = 0
             THEN Reject(404, "Breakout room not found")
             ELSE Put(req.roomCode,
                      [room EXCEPT !.breakoutRooms =
                          Some(ReplaceBreakout(brs, req.breakoutRoomId,
                              [brs[foundIndex] EXCEPT !.revealed = TRUE]))])

\* POST /breakout-room/reset
BreakoutResetHandler(req, loaded) ==
    IF ~validateRoomCode(req.roomCode) \/ ~IsStringId(req.breakoutRoomId)
    THEN Reject(400, "Room code and breakout room ID required")
    ELSE IF loaded = None THEN Reject(404, "Room not found")
    ELSE LET room == BackfillBreakoutRooms(loaded[1])
             brs == room.breakoutRooms[1]
             foundIndex == FindBreakoutIndex(brs, req.breakoutRoomId)
         IN  IF foundIndex = 0
             THEN Reject(404, "Breakout room not found")
             ELSE Put(req.roomCode,
                      [room EXCEPT !.breakoutRooms =
                          Some(ReplaceBreakout(brs, req.breakoutRoomId,
                              [brs[foundIndex] EXCEPT
                                  !.players = ClearVotes(@),
                                  !.revealed = FALSE]))])


(***************************************************************************)
(* The serverless function and its store                                   *)
(***************************************************************************)

\* Concurrent invocations of the function.
Workers == {1, 2}

\* Date.now() never exceeds MaxClock in the model.
MaxClock == 1

\* The room codes that requests and generateRoomCode produce in the model.
CodeA == << "A", "B", "C", "1", "2", "3" >>
CodeB == << "Z", "Z", "Z", "9", "9", "9" >>
RoomCodes == {CodeA, CodeB}

\* floor(Math.random() * 36), six times, for CodeA and CodeB.
DrawsA == << 0, 1, 2, 27, 28, 29 >>
DrawsB == << 25, 25, 25, 35, 35, 35 >>

\* The results of successive calls of generateBreakoutRoomId.
BreakoutIds == << "br1", "br2", "br3", "br4", "br5", "br6", "br7", "br8",
                  "br9", "br10" >>

VARIABLES
    store,      \* kv_store: room code -> None or Some(room document)
    sessions,   \* session_history rows
    published,  \* room code -> the last 'room-update' message published
    now,        \* Date.now()
    pc,         \* worker -> where its handler stands
    req,        \* worker -> the request body it is handling
    pending,    \* worker -> the outcome its handler has computed so far
    attempts,   \* worker -> create-room's attempts counter
    overlaps    \* how often a request arrived while another was in progress

vars ==
    << store, sessions, published, now, pc, req, pending, attempts, overlaps >>

Request(op, roomCode, playerName, playerId, vote, numBreakouts, breakoutRoomId, adminUid) ==
    [op |-> op, roomCode |-> roomCode, playerName |-> playerName,
     playerId |-> playerId, vote |-> vote, numBreakouts |-> numBreakouts,
     breakoutRoomId |-> breakoutRoomId, adminUid |-> adminUid]

NoRequest ==
    Request("", Undefined, Undefined, Undefined, Missing, None, Missing, "")

NoOutcome == Reject(0, "")

EmptyStore == [c \in RoomCodes |-> None]

InitWith(initialStore) ==
    /\ store = initialStore
    /\ sessions = <<>>
    /\ published = [c \in RoomCodes |-> None]
    /\ now = 0
    /\ pc = [w \in Workers |-> "idle"]
    /\ req = [w \in Workers |-> NoRequest]
    /\ pending = [w \in Workers |-> NoOutcome]
    /\ attempts = [w \in Workers |-> 0]
    /\ overlaps = 0

Init == InitWith(EmptyStore)

\* db.get(`room:${code}`)
DbGet(code) == store[code]

\* What a handler reads when it reaches its first db.get; a request that
\* fails validation never gets there.
Load(code) == IF code \in DOMAIN store THEN DbGet(code) ELSE None

\* No invocation is in progress.
AllIdle == \A w \in Workers : pc[w] = "idle"

\* An invocation is taken by the first idle worker (workers are
\* interchangeable).
Free(w) ==
    /\ pc[w] = "idle"
    /\ \A v \in Workers : v < w => pc[v] # "idle"

\* A request arrives at worker w.
Arrive(w) ==
    /\ Free(w)
    /\ overlaps' = IF AllIdle THEN overlaps ELSE overlaps + 1

\* A handler that announces its result without saving it.
ContinueUnsaved(w, outcome) ==
    /\ pc' = [pc EXCEPT ![w] =
                IF outcome.write = "none" THEN "done"
                ELSE IF outcome.write = "auth" THEN "auth"
                ELSE "publish"]
    /\ pending' = [pending EXCEPT ![w] = outcome]

\* The handler moves on to what its outcome asks for.
Continue(w, outcome) ==
    /\ pc' = [pc EXCEPT ![w] =
                IF outcome.write = "none" THEN "done"
                ELSE IF outcome.write = "auth" THEN "auth"
                ELSE "write"]
    /\ pending' = [pending EXCEPT ![w] = outcome]

\* A request whose handler makes one db.get and then decides.
Receive(w, request, outcome) ==
    /\ Arrive(w)
    /\ req' = [req EXCEPT ![w] = request]
    /\ Continue(w, outcome)
    /\ UNCHANGED << store, sessions, published, now, attempts >>

\* A code loop that allows one more attempt.
CodeLoopOneMore(w, request, roomCode, existingRoom, n) ==
    /\ attempts' = [attempts EXCEPT ![w] = n]
    /\ IF existingRoom # None /\ n <= MaxCodeAttempts
       THEN /\ pc' = [pc EXCEPT ![w] = "codeRetry"]
            /\ pending' = [pending EXCEPT ![w] = NoOutcome]
       ELSE Continue(w, CreateRoomHandler(request, roomCode, existingRoom,
                                          now))

\* The code loop of create-room stands after a db.get that returned
\* existingRoom for roomCode, with n attempts made.
CodeLoop(w, request, roomCode, existingRoom, n) ==
    /\ attempts' = [attempts EXCEPT ![w] = n]
    /\ IF existingRoom # None /\ n < MaxCodeAttempts
       THEN /\ pc' = [pc EXCEPT ![w] = "codeRetry"]
            /\ pending' = [pending EXCEPT ![w] = NoOutcome]
       ELSE Continue(w, CreateRoomHandler(request, roomCode, existingRoom,
                                          now))

CreateRoom(w, playerName, playerId, adminUid, draws) ==
    LET request == Request("create-room", Undefined, playerName, playerId,
                           Missing, None, Missing, adminUid)
    IN  /\ Arrive(w)
        /\ req' = [req EXCEPT ![w] = request]
        /\ IF ~validatePlayerName(playerName) \/ ~validatePlayerId(playerId)
           THEN /\ Continue(w, Reject(400, "Player name and ID required"))
                /\ UNCHANGED attempts
           ELSE CodeLoop(w, request, generateRoomCode(draws),
                         DbGet(generateRoomCode(draws)), 0)
        /\ UNCHANGED << store, sessions, published, now >>

\* One more turn of the loop: roomCode = generateRoomCode(); db.get; attempts++
RetryRoomCode(w, draws) ==
    /\ pc[w] = "codeRetry"
    /\ CodeLoop(w, req[w], generateRoomCode(draws),
                DbGet(generateRoomCode(draws)), attempts[w] + 1)
    /\ UNCHANGED << store, sessions, published, now, req, overlaps >>

JoinRoom(w, roomCode, playerName, playerId) ==
    LET request == Request("join-room", roomCode, playerName, playerId,
                           Missing, None, Missing, "")
    IN  Receive(w, request, JoinRoomHandler(request, Load(roomCode), now))

GetRoom(w, roomCode) ==
    LET request == Request("room", roomCode, Undefined, Undefined,
                           Missing, None, Missing, "")
    IN  Receive(w, request, GetRoomHandler(request, Load(roomCode)))

SubmitVote(w, roomCode, playerId, vote) ==
    LET request == Request("vote", roomCode, Undefined, playerId,
                           vote, None, Missing, "")
    IN  Receive(w, request, VoteHandler(request, Load(roomCode), now))

RevealVotes(w, roomCode) ==
    LET request == Request("reveal", roomCode, Undefined, Undefined,
                           Missing, None, Missing, "")
    IN  Receive(w, request, RevealHandler(request, Load(roomCode)))

ResetRound(w, roomCode) ==
    LET request == Request("reset", roomCode, Undefined, Undefined,
                           Missing, None, Missing, "")
    IN  Receive(w, request, ResetHandler(request, Load(roomCode)))

LeaveRoom(w, roomCode, playerId) ==
    LET request == Request("leave", roomCode, Undefined, playerId,
                           Missing, None, Missing, "")
    IN  Receive(w, request, LeaveHandler(request, Load(roomCode)))

CreateBreakoutRooms(w, roomCode, playerId, numBreakouts) ==
    LET request == Request("create-breakout-rooms", roomCode, Undefined,
                           playerId, Missing, numBreakouts, Missing, "")
    IN  Receive(w, request, CreateBreakoutRoomsLoad(request, Load(roomCode)))

DeleteBreakoutRooms(w, roomCode, playerId) ==
    LET request == Request("delete-breakout-rooms", roomCode, Undefined,
                           playerId, Missing, None, Missing, "")
    IN  Receive(w, request, DeleteBreakoutRoomsLoad(request, Load(roomCode)))

JoinBreakoutRoom(w, roomCode, playerId, breakoutRoomId) ==
    LET request == Request("join-breakout-room", roomCode, Undefined,
                           playerId, Missing, None, breakoutRoomId, "")
    IN  Receive(w, request, JoinBreakoutRoomHandler(request, Load(roomCode)))

LeaveBreakoutRoom(w, roomCode, playerId) ==
    LET request == Request("leave-breakout-room", roomCode, Undefined,
                           playerId, Missing, None, Missing, "")
    IN  Receive(w, request, LeaveBreakoutRoomHandler(request, Load(roomCode)))

BreakoutVote(w, roomCode, breakoutRoomId, playerId, vote) ==
    LET request == Request("breakout-room/vote", roomCode, Undefined,
                           playerId, vote, None, breakoutRoomId, "")
    IN  Receive(w, request,
                BreakoutVoteHandler(request, Load(roomCode), now))

BreakoutReveal(w, roomCode, breakoutRoomId) ==
    LET request == Request("breakout-room/reveal", roomCode, Undefined,
                           Undefined, Missing, None, breakoutRoomId, "")
    IN  Receive(w, request, BreakoutRevealHandler(request, Load(roomCode)))

BreakoutReset(w, roomCode, breakoutRoomId) ==
    LET request == Request("breakout-room/reset", roomCode, Undefined,
                           Undefined, Missing, None, breakoutRoomId, "")
    IN  Receive(w, request, BreakoutResetHandler(request, Load(roomCode)))

\* const isCreator = await isRoomCreator(roomCode, playerId), and the rest
\* of the handler up to its db.set.
CheckCreator(w) ==
    /\ pc[w] = "auth"
    /\ LET isCreator == isRoomCreator(DbGet(req[w].roomCode), req[w].playerId)
           room == pending[w].doc[1]
       IN  Continue(w,
              IF req[w].op = "create-breakout-rooms"
              THEN CreateBreakoutRoomsHandler(req[w], room, isCreator, now,
                                              BreakoutIds)
              ELSE DeleteBreakoutRoomsHandler(req[w], room, isCreator))
    /\ UNCHANGED << store, sessions, published, now, req, attempts, overlaps >>

\* if (adminUid): create-room tracks an admin session after its db.set.
TracksSession(request) == request.op = "create-room" /\ request.adminUid # ""

\* A db.del that leaves the document in place.
WriteStoreKeepsRoom(w) ==
    /\ pc[w] = "write"
    /\ store' = [store EXCEPT ![pending[w].key] = pending[w].doc]
    /\ pc' = [pc EXCEPT ![w] =
                IF TracksSession(req[w]) THEN "session" ELSE "publish"]
    /\ UNCHANGED << sessions, published, now, req, pending, attempts, overlaps >>

\* A db.set that gives way to a save another request in progress has made
\* under the same key.
WriteStoreFirstWins(w) ==
    /\ pc[w] = "write"
    /\ store' = [store EXCEPT ![pending[w].key] =
                    IF pending[w].write = "del" THEN None
                    ELSE IF \E v \in Workers :
                               /\ v # w
                               /\ pc[v] \in {"publish", "done"}
                               /\ pending[v].write = "set"
                               /\ pending[v].key = pending[w].key
                    THEN @
                    ELSE pending[w].doc]
    /\ pc' = [pc EXCEPT ![w] =
                IF TracksSession(req[w]) THEN "session" ELSE "publish"]
    /\ UNCHANGED << sessions, published, now, req, pending, attempts, overlaps >>

\* await db.set(key, room), or await db.del(key)
WriteStore(w) ==
    /\ pc[w] = "write"
    /\ store' = [store EXCEPT ![pending[w].key] =
                    IF pending[w].write = "del" THEN None ELSE pending[w].doc]
    /\ pc' = [pc EXCEPT ![w] =
                IF TracksSession(req[w]) THEN "session" ELSE "publish"]
    /\ UNCHANGED << sessions, published, now, req, pending, attempts, overlaps >>

\* const isAdmin = await db.isAdmin(adminUid);
\* if (isAdmin) await db.createSession(roomCode, adminUid, 1);
\* result: "notAdmin" (no row in admin_users, or the query failed),
\* "created", or "failed" (createSession threw; the handler's catch
\* answers 500).
TrackSession(w, result) ==
    /\ pc[w] = "session"
    /\ sessions' = IF result = "created"
                   THEN Append(sessions,
                               << pending[w].key, req[w].adminUid, 1 >>)
                   ELSE sessions
    /\ IF result = "failed"
       THEN Continue(w, Reject(500, "Failed to create session"))
       ELSE /\ pc' = [pc EXCEPT ![w] = "publish"]
            /\ UNCHANGED pending
    /\ UNCHANGED << store, published, now, req, attempts, overlaps >>

\* A publishRoomUpdate whose failure reaches the handler's catch.
PublishOrFail(w, result) ==
    /\ pc[w] = "publish"
    /\ published' = IF result = "published"
                    THEN [published EXCEPT ![pending[w].key] = pending[w].doc]
                    ELSE published
    /\ pc' = [pc EXCEPT ![w] = "done"]
    /\ pending' = [pending EXCEPT ![w] =
                      IF result = "failed"
                      THEN Reject(500, "Failed to publish room update")
                      ELSE @]
    /\ UNCHANGED << store, sessions, now, req, attempts, overlaps >>

\* await publishRoomUpdate(roomCode, room), then the response.
\* result: "skipped" (no ABLY_API_KEY), "published", or "failed" (publish
\* threw and the error was logged).
Publish(w, result) ==
    /\ pc[w] = "publish"
    /\ published' = IF result = "published"
                    THEN [published EXCEPT ![pending[w].key] = pending[w].doc]
                    ELSE published
    /\ pc' = [pc EXCEPT ![w] = "done"]
    /\ UNCHANGED << store, sessions, now, req, pending, attempts, overlaps >>

\* The response has been returned and the invocation ends.
Return(w) ==
    /\ pc[w] = "done"
    /\ pc' = [pc EXCEPT ![w] = "idle"]
    /\ req' = [req EXCEPT ![w] = NoRequest]
    /\ pending' = [pending EXCEPT ![w] = NoOutcome]
    /\ attempts' = [attempts EXCEPT ![w] = 0]
    /\ UNCHANGED << store, sessions, published, now, overlaps >>

\* Time passes.
Tick ==
    /\ now < MaxClock
    /\ now' = now + 1
    /\ UNCHANGED << store, sessions, published, pc, req, pending, attempts,
                   overlaps >>


(***************************************************************************)
(* Specifications.  A request set names the values the clients send.      *)
(***************************************************************************)

IdA == << "a" >>
IdB == << "b" >>
IdC == << "c" >>
IdD == << "d" >>
\* The id of player a as a client sends it with a leading blank.
IdASpaced == << " ", "a" >>
NameAl == << "A", "l" >>
NameBo == << " ", "B", "o" >>
\* A room code that is not upper case.
CodeLower == << "a", "b", "c", "1", "2", "3" >>

\* The clients of the model take at most this many seats of a room: they
\* stop joining a room in which that many players carry one of their ids.
MaxSeats == 2

\* At most this many requests arrive while another is in progress.
MaxOverlaps == 1

\* The players of the stored room that carry an id of ids, trimmed.
Seats(code, ids) ==
    IF DbGet(code) = None THEN 0
    ELSE Len(SelectSeq(DbGet(code)[1].players,
                       LAMBDA p : \E id \in ids : p.id = Trim(id)))

\* The document a handler writes on success.
Written(outcome) == outcome.doc[1]

JoinRequest(playerId) ==
    Request("join-room", CodeA, NameAl, playerId, Missing, None, Missing, "")

\* The room CodeA that a created and b, c and d joined, in that order, all
\* at time 0.
TeamRoom ==
    LET r1 == NewRoom(CodeA, JoinRequest(IdA), 0)
        r2 == Written(JoinRoomHandler(JoinRequest(IdB), Some(r1), 0))
        r3 == Written(JoinRoomHandler(JoinRequest(IdC), Some(r2), 0))
    IN  Written(JoinRoomHandler(JoinRequest(IdD), Some(r3), 0))

TeamStore == [EmptyStore EXCEPT ![CodeA] = Some(TeamRoom)]

\* Every request a client may send, with its fields drawn from the sets of
\* the record in.
Requests(w, in) ==
    \/ \E n \in in.names, p \in in.joinIds, a \in in.admins,
          d \in in.draws : CreateRoom(w, n, p, a, d)
    \/ \E c \in in.codes, n \in in.names, p \in in.joinIds :
          /\ c \in RoomCodes => Seats(c, in.joinIds) < in.maxSeats
          /\ JoinRoom(w, c, n, p)
    \/ \E c \in in.codes : GetRoom(w, c)
    \/ \E c \in in.codes, p \in in.ids, v \in in.votes :
          SubmitVote(w, c, p, v)
    \/ \E c \in in.codes : RevealVotes(w, c)
    \/ \E c \in in.codes : ResetRound(w, c)
    \/ \E c \in in.codes, p \in in.ids : LeaveRoom(w, c, p)
    \/ \E c \in in.codes, p \in in.ids, k \in in.nums :
          CreateBreakoutRooms(w, c, p, k)
    \/ \E c \in in.codes, p \in in.ids : DeleteBreakoutRooms(w, c, p)
    \/ \E c \in in.codes, p \in in.ids, b \in in.breakoutIds :
          JoinBreakoutRoom(w, c, p, b)
    \/ \E c \in in.codes, p \in in.ids : LeaveBreakoutRoom(w, c, p)
    \/ \E c \in in.codes, p \in in.ids, b \in in.breakoutIds,
          v \in in.votes : BreakoutVote(w, c, b, p, v)
    \/ \E c \in in.codes, b \in in.breakoutIds : BreakoutReveal(w, c, b)
    \/ \E c \in in.codes, b \in in.breakoutIds : BreakoutReset(w, c, b)

\* The steps by which a handler that has been entered runs to its response.
Progress(w, in) ==
    \/ \E d \in in.draws : RetryRoomCode(w, d)
    \/ CheckCreator(w)
    \/ WriteStore(w)
    \/ \E r \in in.publish : Publish(w, r)
    \/ Return(w)

\* Concurrent requests on small rooms, from the empty store.
SpecInputs ==
    [codes |-> {CodeA},
     names |-> {NameAl},
     ids |-> {IdA, IdB},
     joinIds |-> {IdA, IdB},
     admins |-> {""},
     draws |-> {DrawsA},
     votes |-> {"5", Null},
     nums |-> {Some(2)},
     breakoutIds |-> {"br1"},
     publish |-> {"skipped"},
     maxSeats |-> MaxSeats]

Next ==
    \E w \in Workers :
        \/ (AllIdle \/ overlaps < MaxOverlaps) /\ Requests(w, SpecInputs)
        \/ Progress(w, SpecInputs)

Spec == Init /\ [][Next]_vars

\* Requests one at a time, from the empty store, malformed ones included.
SeqInputs ==
    [codes |-> {CodeA, CodeLower},
     names |-> {NameAl},
     ids |-> {IdA, IdB, IdASpaced},
     joinIds |-> {IdA, IdB, IdASpaced},
     admins |-> {""},
     draws |-> {DrawsA, DrawsB},
     votes |-> {"5", Null, "7"},
     nums |-> {Some(2), None},
     breakoutIds |-> {"br1", Missing},
     publish |-> {"skipped"},
     maxSeats |-> MaxSeats + 1]

SeqNext ==
    \E w \in Workers :
        \/ AllIdle /\ Requests(w, SeqInputs)
        \/ Progress(w, SeqInputs)

\* Commands run one at a time: a request is taken only when no other is in
\* progress.
SeqSpec == Init /\ [][SeqNext]_vars

\* Requests one at a time on the room of a, b, c and d, of whom a and b are
\* active; a also joins with its id preceded by a blank.
TeamInputs ==
    [codes |-> {CodeA},
     names |-> {NameAl},
     ids |-> {IdA, IdB},
     joinIds |-> {IdA, IdB, IdASpaced},
     admins |-> {""},
     draws |-> {DrawsA},
     votes |-> {"5", Null},
     nums |-> {Some(2)},
     breakoutIds |-> {"br1", "br2"},
     publish |-> {"skipped"},
     maxSeats |-> MaxSeats]

TeamNext ==
    \E w \in Workers :
        \/ AllIdle /\ Requests(w, TeamInputs)
        \/ Progress(w, TeamInputs)

TeamSpec == InitWith(TeamStore) /\ [][TeamNext]_vars


\* The id of the i-th of the players that fill a room, 1 <= i <= 99.
FillerId(i) == << "f" >> \o NumStr(i)

\* The room CodeA after FillerId(1) created it and FillerId(2..n) joined,
\* all at time 0: create-room stores the creator, each join-room appends
\* one new player.
FilledRoom(n) ==
    [NewRoom(CodeA, JoinRequest(FillerId(1)), 0) EXCEPT
        !.players = [i \in 1..n |-> NewPlayer(JoinRequest(FillerId(i)), 0)]]

\* A room one short of full.
CrowdedStore ==
    [EmptyStore EXCEPT ![CodeA] = Some(FilledRoom(MaxPlayersPerRoom - 1))]

\* Concurrent joins, leaves and votes on a room one short of full: a and b
\* are new to the room, FillerId(1) is in it.
CapInputs ==
    [codes |-> {CodeA},
     names |-> {NameAl},
     ids |-> {IdA, IdB},
     joinIds |-> {IdA, IdB, FillerId(1)},
     votes |-> {"5"},
     publish |-> {"skipped"},
     maxSeats |-> MaxSeats + 1]

CapRequests(w, in) ==
    \/ \E c \in in.codes, n \in in.names, p \in in.joinIds :
          /\ Seats(c, in.joinIds) < in.maxSeats
          /\ JoinRoom(w, c, n, p)
    \/ \E c \in in.codes, p \in in.ids, v \in in.votes :
          SubmitVote(w, c, p, v)
    \/ \E c \in in.codes, p \in in.ids : LeaveRoom(w, c, p)

CapNext ==
    \E w \in Workers :
        \/ (AllIdle \/ overlaps < MaxOverlaps) /\ CapRequests(w, CapInputs)
        \/ WriteStore(w)
        \/ \E r \in CapInputs.publish : Publish(w, r)
        \/ Return(w)

CapSpec == InitWith(CrowdedStore) /\ [][CapNext]_vars

\* Requests one at a time on the room of 49, under two names, while time
\* passes.
RejoinInputs ==
    [codes |-> {CodeA},
     names |-> {NameAl, NameBo},
     ids |-> {IdA, IdB},
     joinIds |-> {IdA, IdB, FillerId(1)},
     votes |-> {"5"},
     publish |-> {"skipped"},
     maxSeats |-> MaxSeats + 1]

RejoinNext ==
    \/ Tick
    \/ \E w \in Workers :
          \/ AllIdle /\ CapRequests(w, RejoinInputs)
          \/ WriteStore(w)
          \/ \E r \in RejoinInputs.publish : Publish(w, r)
          \/ Return(w)

RejoinSpec == InitWith(CrowdedStore) /\ [][RejoinNext]_vars

\* The largest room on which the assignment to breakout rooms is checked.
MaxTeam == 7

\* The id of the i-th player of such a room, 1 <= i <= 99.
MemberId(i) == << "p" >> \o NumStr(i)

\* Rooms of 1..MaxTeam players in a quiet round (nothing revealed, no
\* vote), each player an observer or not.
QuietRooms ==
    UNION { { Room(CodeA,
                   [i \in 1..n |-> Player(MemberId(i), NameAl, Null,
                                          observer[i], 0)],
                   FALSE, 0, Some(MemberId(1)), Some(<<>>)) :
              observer \in [1..n -> BOOLEAN] } :
            n \in 1..MaxTeam }

\* The creator asks for 1..11, 2.5 or 10.5 breakout rooms, one request at a
\* time.
AssignNext ==
    \E w \in Workers :
        \/ /\ AllIdle
           /\ \E k \in { Some(n) : n \in (MinBreakouts - 1)..(MaxBreakouts + 1) }
                        \cup { << MinBreakouts, 5 >>, << MaxBreakouts, 5 >> } :
                 CreateBreakoutRooms(w, CodeA, MemberId(1), k)
        \/ CheckCreator(w)
        \/ WriteStore(w)
        \/ Publish(w, "skipped")
        \/ Return(w)

\* POST /create-breakout-rooms as a function of the room and numBreakouts.
AssignSpec ==
    /\ \E room \in QuietRooms :
          InitWith([EmptyStore EXCEPT ![CodeA] = Some(room)])
    /\ [][AssignNext]_vars


\* The room TeamRoom after its creator asked for two breakout rooms:
\* br1 holds a and c, br2 holds b and d.
SplitRoom ==
    Written(CreateBreakoutRoomsHandler(
        Request("create-breakout-rooms", CodeA, Undefined, IdA, Missing,
                Some(2), Missing, ""),
        TeamRoom, TRUE, 0, BreakoutIds))

SplitStore == [EmptyStore EXCEPT ![CodeA] = Some(SplitRoom)]

\* Requests of a and c, who share breakout room br1; no room is stored
\* under CodeB, "7" is no card, a missing vote is no card either, and
\* "br9" is no breakout room.
SplitInputs ==
    [codes |-> {CodeA, CodeB},
     ids |-> {IdA, IdC},
     votes |-> {"5", Null, "7", Missing},
     breakoutIds |-> {"br1", "br2", "br9"},
     publish |-> {"skipped"}]

SplitRequests(w, in) ==
    \/ \E c \in in.codes : GetRoom(w, c)
    \/ \E c \in in.codes, p \in in.ids, v \in in.votes :
          SubmitVote(w, c, p, v)
    \/ \E c \in in.codes : RevealVotes(w, c)
    \/ \E c \in in.codes : ResetRound(w, c)
    \/ \E c \in in.codes, p \in in.ids : LeaveRoom(w, c, p)
    \/ \E c \in in.codes, p \in in.ids, b \in in.breakoutIds :
          JoinBreakoutRoom(w, c, p, b)
    \/ \E c \in in.codes, p \in in.ids : LeaveBreakoutRoom(w, c, p)
    \/ \E c \in in.codes, p \in in.ids, b \in in.breakoutIds,
          v \in in.votes : BreakoutVote(w, c, b, p, v)
    \/ \E c \in in.codes, b \in in.breakoutIds : BreakoutReveal(w, c, b)
    \/ \E c \in in.codes, b \in in.breakoutIds : BreakoutReset(w, c, b)

SplitNext ==
    \E w \in Workers :
        \/ AllIdle /\ SplitRequests(w, SplitInputs)
        \/ WriteStore(w)
        \/ \E r \in SplitInputs.publish : Publish(w, r)
        \/ Return(w)

\* One request at a time on a room that has breakout rooms.
SplitSpec == InitWith(SplitStore) /\ [][SplitNext]_vars


\* Requests one at a time on small rooms, from the empty store, where each
\* publishRoomUpdate finds no client, publishes, or fails.
NotifyInputs ==
    [codes |-> {CodeA},
     names |-> {NameAl},
     ids |-> {IdA, IdB},
     joinIds |-> {IdA, IdB},
     admins |-> {""},
     draws |-> {DrawsA},
     votes |-> {"5", Null},
     nums |-> {Some(2)},
     breakoutIds |-> {"br1"},
     publish |-> {"skipped", "published", "failed"},
     maxSeats |-> MaxSeats]

NotifyNext ==
    \E w \in Workers :
        \/ AllIdle /\ Requests(w, NotifyInputs)
        \/ Progress(w, NotifyInputs)

NotifySpec == Init /\ [][NotifyNext]_vars

\* The requests of player a, the creator, one at a time on the room split
\* into br1 = [a, c] and br2 = [b, d], while time passes.
ClockInputs ==
    [codes |-> {CodeA},
     names |-> {NameAl},
     ids |-> {IdA},
     votes |-> {"5", Null},
     nums |-> {Some(2)},
     breakoutIds |-> {"br1", "br2"},
     publish |-> {"skipped"}]

ClockRequests(w, in) ==
    \/ \E c \in in.codes, n \in in.names, p \in in.ids : JoinRoom(w, c, n, p)
    \/ \E c \in in.codes, p \in in.ids, v \in in.votes :
          SubmitVote(w, c, p, v)
    \/ \E c \in in.codes : ResetRound(w, c)
    \/ \E c \in in.codes, p \in in.ids, k \in in.nums :
          CreateBreakoutRooms(w, c, p, k)
    \/ \E c \in in.codes, p \in in.ids : DeleteBreakoutRooms(w, c, p)
    \/ \E c \in in.codes, p \in in.ids, b \in in.breakoutIds :
          JoinBreakoutRoom(w, c, p, b)
    \/ \E c \in in.codes, p \in in.ids : LeaveBreakoutRoom(w, c, p)
    \/ \E c \in in.codes, p \in in.ids, b \in in.breakoutIds,
          v \in in.votes : BreakoutVote(w, c, b, p, v)
    \/ \E c \in in.codes : RevealVotes(w, c)
    \/ \E c \in in.codes, p \in in.ids : LeaveRoom(w, c, p)
    \/ \E c \in in.codes, b \in in.breakoutIds : BreakoutReveal(w, c, b)
    \/ \E c \in in.codes, b \in in.breakoutIds : BreakoutReset(w, c, b)

ClockNext ==
    \/ Tick
    \/ \E w \in Workers :
          \/ AllIdle /\ ClockRequests(w, ClockInputs)
          \/ CheckCreator(w)
          \/ WriteStore(w)
          \/ \E r \in ClockInputs.publish : Publish(w, r)
          \/ Return(w)

ClockSpec == InitWith(SplitStore) /\ [][ClockNext]_vars

IdO == << "o" >>

\* The room of a, b, c and d with a fifth player o who is an observer.
WatchedRoom ==
    [TeamRoom EXCEPT !.players = Append(@, Player(IdO, NameAl, Null, TRUE, 0))]

\* The requests of the creator a and of the observer o.
WatchedInputs ==
    [codes |-> {CodeA},
     ids |-> {IdA, IdO},
     votes |-> {"5", Null},
     nums |-> {Some(2)},
     breakoutIds |-> {"br1", "br2"},
     publish |-> {"skipped"}]

WatchedRequests(w, in) ==
    \/ \E c \in in.codes, p \in in.ids, v \in in.votes :
          SubmitVote(w, c, p, v)
    \/ \E c \in in.codes : RevealVotes(w, c)
    \/ \E c \in in.codes : ResetRound(w, c)
    \/ \E c \in in.codes, p \in in.ids, k \in in.nums :
          CreateBreakoutRooms(w, c, p, k)
    \/ \E c \in in.codes, p \in in.ids, b \in in.breakoutIds :
          JoinBreakoutRoom(w, c, p, b)
    \/ \E c \in in.codes, p \in in.ids : LeaveBreakoutRoom(w, c, p)
    \/ \E c \in in.codes, p \in in.ids, b \in in.breakoutIds,
          v \in in.votes : BreakoutVote(w, c, b, p, v)

WatchedNext ==
    \E w \in Workers :
        \/ AllIdle /\ WatchedRequests(w, WatchedInputs)
        \/ CheckCreator(w)
        \/ WriteStore(w)
        \/ \E r \in WatchedInputs.publish : Publish(w, r)
        \/ Return(w)

\* One request at a time on a stored room that has an observer.
WatchedSpec ==
    InitWith([EmptyStore EXCEPT ![CodeA] = Some(WatchedRoom)])
    /\ [][WatchedNext]_vars

\* create-room and leave, one at a time, where generateRoomCode draws one of
\* two codes.
LoopInputs ==
    [codes |-> RoomCodes,
     names |-> {NameAl},
     ids |-> {IdA, IdB},
     admins |-> {""},
     draws |-> {DrawsA, DrawsB},
     publish |-> {"skipped"}]

LoopNext ==
    \E w \in Workers :
        \/ /\ AllIdle
           /\ \/ \E n \in LoopInputs.names, p \in LoopInputs.ids,
                    a \in LoopInputs.admins, d \in LoopInputs.draws :
                     CreateRoom(w, n, p, a, d)
              \/ \E c \in LoopInputs.codes, p \in LoopInputs.ids :
                     LeaveRoom(w, c, p)
        \/ \E d \in LoopInputs.draws : RetryRoomCode(w, d)
        \/ WriteStore(w)
        \/ \E r \in LoopInputs.publish : Publish(w, r)
        \/ Return(w)

\* A handler that is in its code loop goes on running: the next
\* generateRoomCode and db.get are eventually done.
LoopSpec ==
    /\ Init
    /\ [][LoopNext]_vars
    /\ \A w \in Workers :
          WF_vars(\E d \in LoopInputs.draws : RetryRoomCode(w, d))

\* The room that a created and b joined, that a then joined with its id
\* preceded by a blank, and that c joined: its players are a, b, a, c.
TwinRoom ==
    LET r1 == NewRoom(CodeA, JoinRequest(IdA), 0)
        r2 == Written(JoinRoomHandler(JoinRequest(IdB), Some(r1), 0))
        r3 == Written(JoinRoomHandler(JoinRequest(IdASpaced), Some(r2), 0))
    IN  Written(JoinRoomHandler(JoinRequest(IdC), Some(r3), 0))

TwinInputs ==
    [codes |-> {CodeA},
     ids |-> {IdA, IdB},
     votes |-> {"5", Null},
     nums |-> {Some(2)},
     breakoutIds |-> {"br1", "br2", "br9"},
     publish |-> {"skipped"}]

TwinRequests(w, in) ==
    \/ \E c \in in.codes, p \in in.ids, k \in in.nums :
          CreateBreakoutRooms(w, c, p, k)
    \/ \E c \in in.codes, p \in in.ids, b \in in.breakoutIds :
          JoinBreakoutRoom(w, c, p, b)
    \/ \E c \in in.codes, p \in in.ids : LeaveBreakoutRoom(w, c, p)
    \/ \E c \in in.codes, p \in in.ids, b \in in.breakoutIds,
          v \in in.votes : BreakoutVote(w, c, b, p, v)
    \/ \E c \in in.codes, b \in in.breakoutIds : BreakoutReveal(w, c, b)
    \/ \E c \in in.codes, b \in in.breakoutIds : BreakoutReset(w, c, b)

TwinNext ==
    \E w \in Workers :
        \/ AllIdle /\ TwinRequests(w, TwinInputs)
        \/ CheckCreator(w)
        \/ WriteStore(w)
        \/ \E r \in TwinInputs.publish : Publish(w, r)
        \/ Return(w)

\* The breakout commands, one at a time, on a room that holds the id a
\* twice.
TwinSpec ==
    InitWith([EmptyStore EXCEPT ![CodeA] = Some(TwinRoom)])
    /\ [][TwinNext]_vars

\* A room stored before creatorId and breakoutRooms were added to the Room
\* interface: players b, a and c, in that order, and neither field.
LegacyRoom ==
    Room(CodeA,
         << Player(IdB, NameAl, Null, FALSE, 0),
            Player(IdA, NameAl, Null, FALSE, 0),
            Player(IdC, NameAl, Null, FALSE, 0) >>,
         FALSE, 0, None, None)

\* a and b ask to create and delete breakout rooms and leave; a, b and d
\* join.
LegacyInputs ==
    [codes |-> {CodeA},
     names |-> {NameAl},
     ids |-> {IdA, IdB},
     joinIds |-> {IdA, IdB, IdD},
     nums |-> {Some(2)},
     publish |-> {"skipped"}]

LegacyNext ==
    \E w \in Workers :
        \/ /\ AllIdle
           /\ \E c \in LegacyInputs.codes :
                 \/ \E n \in LegacyInputs.names, p \in LegacyInputs.joinIds :
                       JoinRoom(w, c, n, p)
                 \/ \E p \in LegacyInputs.ids : LeaveRoom(w, c, p)
                 \/ \E p \in LegacyInputs.ids, k \in LegacyInputs.nums :
                       CreateBreakoutRooms(w, c, p, k)
                 \/ \E p \in LegacyInputs.ids : DeleteBreakoutRooms(w, c, p)
        \/ CheckCreator(w)
        \/ WriteStore(w)
        \/ \E r \in LegacyInputs.publish : Publish(w, r)
        \/ Return(w)

\* One request at a time on a stored room that has no creatorId.
LegacySpec ==
    InitWith([EmptyStore EXCEPT ![CodeA] = Some(LegacyRoom)])
    /\ [][LegacyNext]_vars

\* At most this many admin sessions are tracked.
MaxSessions == 1

\* Every kind of request by a and b, one at a time, on CodeA and on a code
\* that is not well formed, and joins of the full room CodeB, with a vote
\* that is not a card, with and without an adminUid, and with every outcome
\* of the session tracking and of the publish.
OrderInputs ==
    [codes |-> {CodeA, CodeLower},
     joinCodes |-> {CodeA, CodeB, CodeLower},
     names |-> {NameAl},
     ids |-> {IdA, IdB},
     joinIds |-> {IdA, IdB},
     admins |-> {"", "u1"},
     draws |-> {DrawsA},
     votes |-> {"5", "7"},
     nums |-> {Some(2)},
     breakoutIds |-> {"br1"},
     session |-> {"notAdmin", "created", "failed"},
     publish |-> {"skipped", "published", "failed"},
     maxSeats |-> MaxSeats]

OrderRequests(w, in) ==
    \/ \E n \in in.names, p \in in.joinIds, a \in in.admins,
          d \in in.draws :
          /\ a # "" => Len(sessions) < MaxSessions
          /\ CreateRoom(w, n, p, a, d)
    \/ \E c \in in.joinCodes, n \in in.names, p \in in.joinIds :
          /\ c \in RoomCodes => Seats(c, in.joinIds) < in.maxSeats
          /\ JoinRoom(w, c, n, p)
    \/ \E c \in in.codes : GetRoom(w, c)
    \/ \E c \in in.codes, p \in in.ids, v \in in.votes :
          SubmitVote(w, c, p, v)
    \/ \E c \in in.codes : RevealVotes(w, c)
    \/ \E c \in in.codes : ResetRound(w, c)
    \/ \E c \in in.codes, p \in in.ids : LeaveRoom(w, c, p)
    \/ \E c \in in.codes, p \in in.ids, k \in in.nums :
          CreateBreakoutRooms(w, c, p, k)
    \/ \E c \in in.codes, p \in in.ids : DeleteBreakoutRooms(w, c, p)
    \/ \E c \in in.codes, p \in in.ids, b \in in.breakoutIds :
          JoinBreakoutRoom(w, c, p, b)
    \/ \E c \in in.codes, p \in in.ids : LeaveBreakoutRoom(w, c, p)
    \/ \E c \in in.codes, p \in in.ids, b \in in.breakoutIds,
          v \in in.votes : BreakoutVote(w, c, b, p, v)
    \/ \E c \in in.codes, b \in in.breakoutIds : BreakoutReveal(w, c, b)
    \/ \E c \in in.codes, b \in in.breakoutIds : BreakoutReset(w, c, b)

OrderNext ==
    \E w \in Workers :
        \/ AllIdle /\ OrderRequests(w, OrderInputs)
        \/ Progress(w, OrderInputs)
        \/ \E r \in OrderInputs.session : TrackSession(w, r)

\* The store holds a full room under CodeB.
OrderSpec ==
    InitWith([EmptyStore EXCEPT ![CodeB] =
                 Some([FilledRoom(MaxPlayersPerRoom) EXCEPT !.code = CodeB])])
    /\ [][OrderNext]_vars

\* Votes of a and b, reveals and resets on the room of a, b, c and d, where
\* every publishRoomUpdate reaches the channel.
EchoNext ==
    \E w \in Workers :
        \/ /\ AllIdle \/ overlaps < MaxOverlaps
           /\ \E c \in {CodeA} :
                 \/ \E p \in {IdA, IdB}, v \in {"5", Null} :
                       SubmitVote(w, c, p, v)
                 \/ RevealVotes(w, c)
                 \/ ResetRound(w, c)
        \/ WriteStore(w)
        \/ Publish(w, "published")
        \/ Return(w)

\* Requests that overlap on a stored room, with ABLY_API_KEY set and the
\* channel reachable.
EchoSpec == InitWith(TeamStore) /\ [][EchoNext]_vars

(***************************************************************************)
(* Properties                                                              *)
(***************************************************************************)

\* The codes under which a room is stored.
StoredCodes == { c \in RoomCodes : store[c] # None }

\* Worker w takes a request in this step.
Takes(w) == pc[w] = "idle" /\ pc'[w] # "idle"

\* Worker w answers its request in this step.
Answers(w) == pc[w] # "done" /\ pc'[w] = "done"

\* Worker w answers its request with an error in this step.
Refuses(w, status, error) ==
    /\ Answers(w)
    /\ pending'[w].status = status
    /\ pending'[w].error = error

\* Worker w has answered a request of kind op with this error.
Refused(w, op, error) ==
    pc[w] = "done" /\ req[w].op = op /\ pending[w].error = error

\* Worker w has answered a request of kind op with success.
Succeeded(w, op) ==
    pc[w] = "done" /\ req[w].op = op /\ pending[w].status = 200

HasId(players, id) == \E i \in 1..Len(players) : players[i].id = id

C1_AtMost50 ==
    \A c \in StoredCodes : Len(store[c][1].players) <= 50

C1_FullRoomRefuses ==
    \A w \in Workers :
        ( /\ Takes(w)
          /\ req'[w].op = "join-room"
          /\ validateRoomCode(req'[w].roomCode)
          /\ validatePlayerName(req'[w].playerName)
          /\ validatePlayerId(req'[w].playerId)
          /\ store[req'[w].roomCode] # None
          /\ Len(store[req'[w].roomCode][1].players) = 50
          /\ ~HasId(store[req'[w].roomCode][1].players, req'[w].playerId) )
        => /\ Refuses(w, 400, "Room is full")
           /\ store' = store

\* C1: a stored room never has more than 50 players, whatever the
\* interleaving of requests, and a join-room whose player id is not in a
\* room of 50 players is refused with 'Room is full' and writes nothing.
C1_PlayerCap == [] C1_AtMost50 /\ [][C1_FullRoomRefuses]_vars

\* A join-room has been refused as 'Room is full' on a room of 50 players.
C1_Witness ==
    /\ store[CodeA] # None
    /\ Len(store[CodeA][1].players) = 50
    /\ \E w \in Workers : Refused(w, "join-room", "Room is full")

C2_CodeChars ==
    {"A", "B", "C", "D", "E", "F", "G", "H", "I", "J", "K", "L", "M",
     "N", "O", "P", "Q", "R", "S", "T", "U", "V", "W", "X", "Y", "Z",
     "0", "1", "2", "3", "4", "5", "6", "7", "8", "9"}

\* The room a create-room request of this caller is to store under key.
C2_FreshRoom(room, key, request) ==
    /\ Len(room.players) = 1
    /\ room.players[1].id = Trim(request.playerId)
    /\ room.players[1].name = Trim(request.playerName)
    /\ room.players[1].vote = Null
    /\ room.players[1].isObserver = FALSE
    /\ room.revealed = FALSE
    /\ room.creatorId = Some(room.players[1].id)
    /\ room.breakoutRooms = Some(<<>>)
    /\ room.code = key
    /\ Len(key) = 6
    /\ \A i \in 1..Len(key) : key[i] \in C2_CodeChars

\* The db.set of a create-room stores a fresh room.
C2_StoresFreshRoom ==
    \A w \in Workers :
        (pc[w] = "write" /\ pc'[w] # "write" /\ req[w].op = "create-room")
        => /\ store'[pending[w].key] # None
           /\ C2_FreshRoom(store'[pending[w].key][1], pending[w].key, req[w])

\* The code loop of a create-room ends in a db.set only on a code whose
\* last db.get found nothing.
C2_CodeWasAbsent ==
    \A w \in Workers :
        (pc[w] # "write" /\ pc'[w] = "write" /\ req'[w].op = "create-room")
        => store[pending'[w].key] = None

\* A create-room that answers 200 has made its db.set.
C2_SuccessHasStored ==
    \A w \in Workers :
        (Answers(w) /\ req'[w].op = "create-room" /\ pending'[w].status = 200)
        => pc[w] = "publish" /\ pending'[w].write = "set"

\* C2: every successful create-room stores, under a code that its last
\* collision check found absent from the store, a room with exactly one
\* player (the caller, no vote, not an observer), revealed = false,
\* creatorId equal to that player's id, no breakout rooms, and a code of
\* exactly 6 characters from A-Z and 0-9.
C2_CreateRoomResult ==
    /\ [][C2_StoresFreshRoom]_vars
    /\ [][C2_CodeWasAbsent]_vars
    /\ [][C2_SuccessHasStored]_vars

\* A create-room has succeeded after its code loop went round again.
C2_Witness ==
    \E w \in Workers :
        /\ Succeeded(w, "create-room")
        /\ attempts[w] > 0
        /\ store[pending[w].key] # None
        /\ C2_FreshRoom(store[pending[w].key][1], pending[w].key, req[w])

\* No two entries of a player list have the same id.
UniqueIds(players) ==
    \A i, j \in 1..Len(players) : i # j => players[i].id # players[j].id

\* C3: in every stored room no two entries of players have the same id,
\* and no two entries of any one breakout room's players have the same id,
\* for every player id that passes validation, ids with leading or trailing
\* whitespace included.
C3_UniquePlayerIds ==
    \A c \in StoredCodes :
        /\ UniqueIds(store[c][1].players)
        /\ \A b \in 1..Len(BreakoutsOf(store[c][1])) :
              UniqueIds(BreakoutsOf(store[c][1])[b].players)

\* Worker w makes its store write in this step.
Writes(w) == pc[w] = "write" /\ pc'[w] # "write"

\* Every player of the room stored under code c has this id, so that its
\* leaving empties the room.
OnlyPlayer(c, id) ==
    /\ store[c] # None
    /\ \A i \in 1..Len(store[c][1].players) : store[c][1].players[i].id = id

\* The write of a leave that removes the last remaining player deletes the
\* document.
C4_LastLeaveDeletes ==
    \A w \in Workers :
        ( /\ Writes(w)
          /\ req[w].op = "leave"
          /\ OnlyPlayer(req[w].roomCode, req[w].playerId) )
        => /\ pending[w].write = "del"
           /\ store'[req[w].roomCode] = None

\* A well-formed GET room, vote, reveal or reset on an absent room.
C4_AsksAbsentRoom(request) ==
    /\ request.roomCode \in RoomCodes
    /\ store[request.roomCode] = None
    /\ \/ request.op \in {"room", "reveal", "reset"}
       \/ /\ request.op = "vote"
          /\ validatePlayerId(request.playerId)
          /\ request.vote \in validVotes

C4_AbsentIsNotFound ==
    \A w \in Workers :
        (Takes(w) /\ C4_AsksAbsentRoom(req'[w]))
        => /\ Refuses(w, 404, "Room not found")
           /\ store' = store

\* An absent room appears only through the write of a join-room or a
\* create-room.
C4_AbsentUntilCreated ==
    \A c \in RoomCodes :
        (store[c] = None /\ store'[c] # None)
        => \E w \in Workers :
              /\ Writes(w)
              /\ req[w].op \in {"join-room", "create-room"}
              /\ pending[w].key = c

\* C4: with requests handled one at a time, a leave that removes the last
\* remaining player deletes the room document; GET room, vote, reveal and
\* reset on the absent room answer 404 'Room not found'; and the room stays
\* absent until a join-room or a create-room stores it again.
C4_LastLeaveDeletesRoom ==
    /\ [][C4_LastLeaveDeletes]_vars
    /\ [][C4_AbsentIsNotFound]_vars
    /\ [][C4_AbsentUntilCreated]_vars

\* A leave of the last remaining player has completed and the room is gone.
C4_Witness ==
    \E w \in Workers :
        /\ Succeeded(w, "leave")
        /\ pending[w].write = "del"
        /\ Len(pending[w].doc[1].players) = 0
        /\ store[req[w].roomCode] = None

\* C5: no stored room document has an empty players collection, under
\* every interleaving of requests: every db.set in progress carries at
\* least one player, a leave that empties players deletes instead.
C5_NoEmptyRoom ==
    /\ \A c \in StoredCodes : Len(store[c][1].players) >= 1
    /\ \A w \in Workers :
          (pc[w] = "write" /\ pending[w].write = "set")
          => Len(pending[w].doc[1].players) >= 1

\* A leave that emptied the room has deleted it while another request on
\* the same room was between its load and its save.
C5_Witness ==
    \E w, v \in Workers :
        /\ Succeeded(w, "leave")
        /\ pending[w].write = "del"
        /\ Len(pending[w].doc[1].players) = 0
        /\ pc[v] = "write"
        /\ pending[v].key = req[w].roomCode

\* isCreator(room, playerId): creatorId if the room has one, else the
\* first player.
C6_IsCreator(room, playerId) ==
    IF room.creatorId # None
    THEN room.creatorId[1] = playerId
    ELSE Len(room.players) > 0 /\ room.players[1].id = playerId

\* A well-formed create-breakout-rooms or delete-breakout-rooms.
C6_BreakoutAdmin(request) ==
    /\ request.op \in {"create-breakout-rooms", "delete-breakout-rooms"}
    /\ validateRoomCode(request.roomCode)
    /\ validatePlayerId(request.playerId)
    /\ request.op = "create-breakout-rooms"
          => /\ request.numBreakouts # None
             /\ request.numBreakouts[1] \in 2..10

C6_Message(request) ==
    IF request.op = "create-breakout-rooms"
    THEN "Only room creator can create breakout rooms"
    ELSE "Only room creator can delete breakout rooms"

\* Such a request on a stored room goes on to the creator check and has
\* written nothing so far.
C6_ComesToCheck ==
    \A w \in Workers :
        ( /\ Takes(w)
          /\ C6_BreakoutAdmin(req'[w])
          /\ store[req'[w].roomCode] # None )
        => pc'[w] = "auth" /\ store' = store /\ published' = published

\* The creator check refuses a player id that is not the creator's, and
\* the handler ends there.
C6_CheckRefuses ==
    \A w \in Workers :
        ( /\ pc[w] = "auth" /\ pc'[w] # "auth"
          /\ store[req[w].roomCode] # None
          /\ ~C6_IsCreator(store[req[w].roomCode][1], req[w].playerId) )
        => /\ Refuses(w, 403, C6_Message(req[w]))
           /\ pending'[w].write = "none"
           /\ store' = store
           /\ published' = published

\* C6: on a stored room, a well-formed create-breakout-rooms or
\* delete-breakout-rooms whose playerId is not the creator is answered 403
\* and makes no save and no notification: the stored room, breakoutRooms
\* included, is unchanged.
C6_NonCreatorForbidden ==
    [][C6_ComesToCheck]_vars /\ [][C6_CheckRefuses]_vars

\* A player of the room who is not its creator has been refused, and the
\* room still has its breakout rooms.
C6_Witness ==
    \E w \in Workers :
        /\ pc[w] = "done"
        /\ req[w].op = "delete-breakout-rooms"
        /\ pending[w].status = 403
        /\ store[req[w].roomCode] # None
        /\ HasId(store[req[w].roomCode][1].players, req[w].playerId)
        /\ Len(BreakoutsOf(store[req[w].roomCode][1])) = 2

\* The non-observer players of a player list, in its order.
NonObservers(players) == SelectSeq(players, LAMBDA p : p.isObserver = FALSE)

\* How many entries of the breakout rooms brs carry this id.
Memberships(brs, id) ==
    Cardinality({ <<b, j>> \in (1..Len(brs)) \X (1..MaxPlayersPerRoom) :
                    j <= Len(brs[b].players) /\ brs[b].players[j].id = id })

\* Worker w makes the db.set of a create-breakout-rooms in this step.
CreatesBreakouts(w) ==
    /\ Writes(w)
    /\ req[w].op = "create-breakout-rooms"
    /\ store[req[w].roomCode] # None

C7_Partition(room, asked, brs) ==
    /\ Len(brs) = Min(asked, Len(NonObservers(room.players)) \div 2)
    /\ \A i \in 1..Len(room.players) :
          Memberships(brs, room.players[i].id) =
              IF room.players[i].isObserver THEN 0 ELSE 1

C8_RoundRobin(room, brs) ==
    LET voting == NonObservers(room.players)
        E == Len(brs)
    IN  /\ \A i \in 0..(Len(voting) - 1) :
              \E j \in 1..Len(brs[(i % E) + 1].players) :
                  brs[(i % E) + 1].players[j] = voting[i + 1]
        /\ \A b \in 1..E :
              /\ \A j \in 1..Len(brs[b].players) :
                    /\ (j - 1) * E + b <= Len(voting)
                    /\ brs[b].players[j] = voting[(j - 1) * E + b]
              /\ Len(brs[b].players) >= 2
        /\ \A b, c \in 1..E :
              Len(brs[b].players) - Len(brs[c].players) <= 1

\* C8: create-breakout-rooms places the i-th non-observer player of the
\* room's player order (0-based) in breakout room number i mod E, E the
\* number of rooms created; each breakout room keeps its players in room
\* order, has at least 2 players, and sizes differ by at most one.
C8_RoundRobinAssignment ==
    [][ \A w \in Workers :
          CreatesBreakouts(w)
          => /\ store'[req[w].roomCode] # None
             /\ C8_RoundRobin(store[req[w].roomCode][1],
                               BreakoutsOf(store'[req[w].roomCode][1])) ]_vars

\* Join order p1, p2, p3, p4 has been split into {p1, p3} and {p2, p4}.
C8_Witness ==
    /\ \E w \in Workers : Succeeded(w, "create-breakout-rooms")
    /\ store[CodeA] # None
    /\ Len(store[CodeA][1].players) = 4
    /\ Len(BreakoutsOf(store[CodeA][1])) = 2
    /\ LET brs == BreakoutsOf(store[CodeA][1])
       IN  /\ Len(brs[1].players) = 2
           /\ brs[1].players[1].id = MemberId(1)
           /\ brs[1].players[2].id = MemberId(3)
           /\ Len(brs[2].players) = 2
           /\ brs[2].players[1].id = MemberId(2)
           /\ brs[2].players[2].id = MemberId(4)

\* The breakout rooms of brs that have a player with this id.
BreakoutsWith(brs, id) ==
    { b \in 1..Len(brs) : HasId(brs[b].players, id) }

\* C9: in every stored room each player id is in the players of at most
\* one breakout room.
C9_OneBreakoutPerPlayer ==
    \A c \in StoredCodes :
        \A i \in 1..Len(store[c][1].players) :
            Cardinality(BreakoutsWith(BreakoutsOf(store[c][1]),
                                      store[c][1].players[i].id)) <= 1

\* Every player of every breakout room of this document has the id of a
\* non-observer player of the room.
MembersArePlayers(room) ==
    \A b \in 1..Len(BreakoutsOf(room)) :
        \A j \in 1..Len(BreakoutsOf(room)[b].players) :
            \E i \in 1..Len(room.players) :
                /\ room.players[i].id = BreakoutsOf(room)[b].players[j].id
                /\ room.players[i].isObserver = FALSE

\* C10: in every stored room, and in every document about to be stored,
\* every player id found in a breakout room's players is the id of a
\* non-observer player of the parent room.
C10_BreakoutMembersArePlayers ==
    /\ \A c \in StoredCodes : MembersArePlayers(store[c][1])
    /\ \A w \in Workers :
          (pc[w] = "write" /\ pending[w].write = "set")
          => MembersArePlayers(pending[w].doc[1])

\* Player b has left a room that had breakout rooms: b is gone from the
\* room and from the breakout rooms, which keep the other three players.
C10_Witness ==
    \E w \in Workers :
        /\ Succeeded(w, "leave")
        /\ req[w].playerId = IdB
        /\ store[CodeA] # None
        /\ ~HasId(store[CodeA][1].players, IdB)
        /\ Len(store[CodeA][1].players) = 3
        /\ Len(BreakoutsOf(store[CodeA][1])) = 2
        /\ \A i \in 1..3 :
              Memberships(BreakoutsOf(store[CodeA][1]),
                          store[CodeA][1].players[i].id) = 1

\* C11: a breakout room with zero players is pruned at once: no entry of
\* a stored breakoutRooms collection has an empty players collection.
C11_NoEmptyBreakoutRoom ==
    \A c \in StoredCodes :
        \A b \in 1..Len(BreakoutsOf(store[c][1])) :
            Len(BreakoutsOf(store[c][1])[b].players) >= 1

\* Worker w makes the db.set of a request of kind op on a stored room in
\* this step.
Saves(w, op) ==
    /\ Writes(w)
    /\ req[w].op = op
    /\ pending[w].write = "set"
    /\ store[req[w].roomCode] # None

\* The room stored under the code of w's request before and after the step.
Before(w) == store[req[w].roomCode][1]
After(w) == store'[req[w].roomCode][1]

\* C12: reveal changes nothing but the revealed flag, which it sets to
\* true; applied to a room already revealed it stores the same room again.
C12_RevealIdempotent ==
    [][ \A w \in Workers :
          Saves(w, "reveal")
          => /\ store'[req[w].roomCode] # None
             /\ After(w).revealed = TRUE
             /\ After(w).players = Before(w).players
             /\ After(w).creatorId = Before(w).creatorId
             /\ After(w).breakoutRooms = Before(w).breakoutRooms
             /\ After(w).code = Before(w).code
             /\ After(w).createdAt = Before(w).createdAt
             /\ Before(w).revealed = TRUE => store' = store ]_vars

\* A second reveal in a row is about to store the room it found: revealed,
\* with a vote and breakout rooms in it.
C12_Witness ==
    \E w \in Workers :
        /\ pc[w] = "write"
        /\ req[w].op = "reveal"
        /\ store[CodeA] # None
        /\ store[CodeA][1].revealed = TRUE
        /\ pending[w].doc = store[CodeA]
        /\ \E i \in 1..Len(store[CodeA][1].players) :
              store[CodeA][1].players[i].vote = "5"
        /\ Len(BreakoutsOf(store[CodeA][1])) = 2

\* Two player lists with the same entries in the same positions, up to
\* vote and lastSeen.
SamePeople(before, after) ==
    /\ Len(after) = Len(before)
    /\ \A i \in 1..Len(before) :
          /\ after[i].id = before[i].id
          /\ after[i].name = before[i].name
          /\ after[i].isObserver = before[i].isObserver

\* C13: a reset stores every main-room player with no vote and revealed =
\* false, whatever the votes and the flag were, and changes no player's id,
\* name, isObserver or position.
C13_ResetClearsRound ==
    [][ \A w \in Workers :
          Saves(w, "reset")
          => /\ store'[req[w].roomCode] # None
             /\ After(w).revealed = FALSE
             /\ \A i \in 1..Len(After(w).players) :
                   After(w).players[i].vote = Null
             /\ SamePeople(Before(w).players, After(w).players) ]_vars

\* A reset is about to store a cleared round over a revealed room in which
\* player a had voted 5.
C13_Witness ==
    \E w \in Workers :
        /\ pc[w] = "write"
        /\ req[w].op = "reset"
        /\ store[CodeA] # None
        /\ store[CodeA][1].revealed = TRUE
        /\ store[CodeA][1].players[1].vote = "5"
        /\ pending[w].doc[1].revealed = FALSE
        /\ pending[w].doc[1].players[1].vote = Null
        /\ pending[w].doc[1].players[1].id = IdA

\* The closed card set, and the absent vote.
Cards == {"0", "1", "2", "3", "5", "8", "13", "21", "?", "coffee"}
CardOrAbsent(v) == v \in Cards \/ v = Null

\* The first position of a player list that has this id.
FirstWithId(players, id) ==
    CHOOSE i \in 1..Len(players) :
        /\ players[i].id = id
        /\ \A j \in 1..(i - 1) : players[j].id # id

\* A vote of a card or of the absent value, by a player of a stored room,
\* is accepted whether or not the round is revealed.
C14_VoteAccepted ==
    \A w \in Workers :
        ( /\ Takes(w)
          /\ req'[w].op = "vote"
          /\ req'[w].roomCode \in RoomCodes
          /\ store[req'[w].roomCode] # None
          /\ validatePlayerId(req'[w].playerId)
          /\ HasId(store[req'[w].roomCode][1].players, req'[w].playerId)
          /\ CardOrAbsent(req'[w].vote) )
        => pending'[w].status = 200 /\ pending'[w].write = "set"

\* The db.set of a vote records the vote for that player and changes no
\* other vote, no player's identity or position, and not the flag.
C14_VoteStored ==
    \A w \in Workers :
        Saves(w, "vote")
        => LET p == FirstWithId(Before(w).players, req[w].playerId)
           IN  /\ CardOrAbsent(req[w].vote)
               /\ HasId(Before(w).players, req[w].playerId)
               /\ store'[req[w].roomCode] # None
               /\ After(w).players[p].vote = req[w].vote
               /\ \A i \in 1..Len(Before(w).players) :
                     i # p => After(w).players[i].vote =
                                 Before(w).players[i].vote
               /\ SamePeople(Before(w).players, After(w).players)
               /\ After(w).revealed = Before(w).revealed

\* C14: a successful vote of a card or of the absent value leaves that
\* player's stored vote equal to it, changes no other player's vote, is
\* accepted whether revealed is false or true, and never changes revealed.
C14_SubmitVote == [][C14_VoteAccepted]_vars /\ [][C14_VoteStored]_vars

\* Player a has withdrawn an earlier vote of 5 in a revealed round, while
\* player c's vote of 5 stands.
C14_Witness ==
    \E w \in Workers :
        /\ Succeeded(w, "vote")
        /\ req[w].playerId = IdA
        /\ req[w].vote = Null
        /\ store[CodeA] # None
        /\ store[CodeA][1].revealed = TRUE
        /\ store[CodeA][1].players[1].vote = Null
        /\ \E i \in 1..Len(store[CodeA][1].players) :
              /\ store[CodeA][1].players[i].id = IdC
              /\ store[CodeA][1].players[i].vote = "5"

\* A well-formed main-room or breakout-room vote request.
C15_VoteRequest(request) ==
    /\ request.op \in {"vote", "breakout-room/vote"}
    /\ validateRoomCode(request.roomCode)
    /\ validatePlayerId(request.playerId)
    /\ request.op = "breakout-room/vote" => request.breakoutRoomId # Missing

\* A vote value that is no card and not the absent value is refused
\* whatever the store holds.
C15_BadValueRefused ==
    \A w \in Workers :
        ( /\ Takes(w)
          /\ C15_VoteRequest(req'[w])
          /\ ~CardOrAbsent(req'[w].vote) )
        => /\ Refuses(w, 400, "Invalid vote value")
           /\ pending'[w].write = "none"
           /\ store' = store
           /\ published' = published

\* The breakout room with this id in a room document, if it has one.
HasBreakout(room, id) ==
    \E b \in 1..Len(BreakoutsOf(room)) : BreakoutsOf(room)[b].id = id
BreakoutNamed(room, id) ==
    BreakoutsOf(room)[CHOOSE b \in 1..Len(BreakoutsOf(room)) :
                          BreakoutsOf(room)[b].id = id]

\* A vote by an id that is not in the room, or not in the addressed
\* breakout room, is refused as not found.
C15_StrangerRefused ==
    \A w \in Workers :
        ( /\ Takes(w)
          /\ C15_VoteRequest(req'[w])
          /\ CardOrAbsent(req'[w].vote)
          /\ store[req'[w].roomCode] # None
          /\ IF req'[w].op = "vote"
             THEN ~HasId(store[req'[w].roomCode][1].players,
                         req'[w].playerId)
             ELSE /\ HasBreakout(store[req'[w].roomCode][1],
                                 req'[w].breakoutRoomId)
                  /\ ~HasId(BreakoutNamed(store[req'[w].roomCode][1],
                                          req'[w].breakoutRoomId).players,
                            req'[w].playerId) )
        => /\ Answers(w)
           /\ pending'[w].status = 404
           /\ pending'[w].error =
                 IF req'[w].op = "vote" THEN "Player not found in room"
                 ELSE "Player not found in breakout room"
           /\ pending'[w].write = "none"
           /\ store' = store
           /\ published' = published

\* C15: a main-room or breakout-room vote whose value is no card and not
\* the absent value is refused as invalid input before the room is loaded,
\* and a vote by an id not in the room (or not in the addressed breakout
\* room) is refused as not found; neither saves nor notifies, so the
\* stored room is unchanged.
C15_BadVotesRefused ==
    [][C15_BadValueRefused]_vars /\ [][C15_StrangerRefused]_vars

\* A breakout vote with a value that is no card has been refused on a code
\* under which nothing is stored.
C15_Witness ==
    \E w \in Workers :
        /\ Refused(w, "breakout-room/vote", "Invalid vote value")
        /\ req[w].vote = "7"
        /\ store[req[w].roomCode] = None

\* A breakout vote by a player of the room who is not in the addressed
\* breakout room has been refused.
C15_StrangerWitness ==
    \E w \in Workers :
        /\ Refused(w, "breakout-room/vote",
                   "Player not found in breakout room")
        /\ store[req[w].roomCode] # None
        /\ HasId(store[req[w].roomCode][1].players, req[w].playerId)

\* A well-formed join-room request.
JoinsWellFormed(request) ==
    /\ request.op = "join-room"
    /\ validateRoomCode(request.roomCode)
    /\ validatePlayerName(request.playerName)
    /\ validatePlayerId(request.playerId)

\* A well-formed join-room on a code under which nothing is stored goes on
\* to store the room that create-room would store under that code.
C16_JoinComputesFreshRoom ==
    \A w \in Workers :
        ( /\ Takes(w)
          /\ JoinsWellFormed(req'[w])
          /\ store[req'[w].roomCode] = None )
        => /\ pc'[w] = "write"
           /\ pending'[w].status = 200
           /\ pending'[w].write = "set"
           /\ pending'[w].key = ToUpperCase(req'[w].roomCode)
           /\ C2_FreshRoom(pending'[w].doc[1], pending'[w].key, req'[w])
           /\ pending'[w].doc =
                 CreateRoomHandler(req'[w], pending'[w].key, None, now).doc

\* The db.set of a join-room stores the document the handler computed.
C16_JoinStores ==
    \A w \in Workers :
        (Writes(w) /\ req[w].op = "join-room")
        => store'[pending[w].key] = pending[w].doc

\* join-room never answers 404.
C16_NeverNotFound ==
    \A w \in Workers :
        (Answers(w) /\ req'[w].op = "join-room") => pending'[w].status # 404

\* C16: join-room with a well-formed code under which no room is stored
\* creates the room as create-room would with that code: one player (the
\* caller, no vote), revealed = false, creatorId the caller's id, no
\* breakout rooms, code the supplied code uppercased; it never answers 404.
C16_JoinCreatesRoom ==
    /\ [][C16_JoinComputesFreshRoom]_vars
    /\ [][C16_JoinStores]_vars
    /\ [][C16_NeverNotFound]_vars

\* A join-room sent with the id " a" has created the room: its only player
\* and its creator is a.
C16_Witness ==
    \E w \in Workers :
        /\ Succeeded(w, "join-room")
        /\ req[w].playerId = IdASpaced
        /\ store[CodeA] # None
        /\ C2_FreshRoom(store[CodeA][1], CodeA, req[w])
        /\ store[CodeA][1].creatorId = Some(IdA)

\* A well-formed join-room whose id is the id of a player of the stored room
\* goes on to save that room with the same players in the same places: the
\* first player with that id carries the trimmed name of the request and the
\* time of the request, and keeps its id, vote and isObserver; every other
\* player is as stored. The size of the room does not matter.
C17_Reconnects ==
    \A w \in Workers :
        ( /\ Takes(w)
          /\ JoinsWellFormed(req'[w])
          /\ store[req'[w].roomCode] # None
          /\ HasId(store[req'[w].roomCode][1].players, req'[w].playerId) )
        => LET before == store[req'[w].roomCode][1].players
               at == FirstWithId(before, req'[w].playerId)
               after == pending'[w].doc[1].players
           IN  /\ pc'[w] = "write"
               /\ pending'[w].status = 200
               /\ pending'[w].write = "set"
               /\ pending'[w].key = req'[w].roomCode
               /\ Len(after) = Len(before)
               /\ \A i \in 1..Len(before) : i # at => after[i] = before[i]
               /\ after[at].id = before[at].id
               /\ after[at].vote = before[at].vote
               /\ after[at].isObserver = before[at].isObserver
               /\ after[at].name = Trim(req'[w].playerName)
               /\ after[at].lastSeen = now

\* A well-formed join-room whose id no player of the stored room has, sent
\* to a room below the player limit, goes on to save the room with the
\* caller added after all the players it had.
C17_Appends ==
    \A w \in Workers :
        ( /\ Takes(w)
          /\ JoinsWellFormed(req'[w])
          /\ store[req'[w].roomCode] # None
          /\ ~HasId(store[req'[w].roomCode][1].players, req'[w].playerId)
          /\ Len(store[req'[w].roomCode][1].players) < MaxPlayersPerRoom )
        => LET before == store[req'[w].roomCode][1].players
               after == pending'[w].doc[1].players
           IN  /\ pc'[w] = "write"
               /\ pending'[w].status = 200
               /\ pending'[w].write = "set"
               /\ pending'[w].key = req'[w].roomCode
               /\ Len(after) = Len(before) + 1
               /\ SubSeq(after, 1, Len(before)) = before
               /\ after[Len(after)] =
                     [id |-> Trim(req'[w].playerId),
                      name |-> Trim(req'[w].playerName),
                      vote |-> Null,
                      isObserver |-> FALSE,
                      lastSeen |-> now]

\* C17: join-room on a stored room with the id of one of its players is a
\* reconnect: the number of players is unchanged, the entry keeps its place,
\* vote and isObserver, only its name and lastSeen are updated, and it is
\* accepted even in a room of 50 players; join-room with a new id appends
\* the player at the end of the list.
C17_ReconnectOrAppend ==
    /\ [][C17_Reconnects]_vars
    /\ [][C17_Appends]_vars

\* Player a, who joined the room of 49 as its 50th player under the name Al
\* and voted 5 at time 0, has joined again at time 1 under the name " Bo":
\* the room still has 50 players and its last one is a, named Bo, vote 5.
C17_Witness ==
    \E w \in Workers :
        /\ Succeeded(w, "join-room")
        /\ req[w].playerId = IdA
        /\ req[w].playerName = NameBo
        /\ store[CodeA] # None
        /\ LET players == store[CodeA][1].players
           IN  /\ Len(players) = MaxPlayersPerRoom
               /\ players[MaxPlayersPerRoom].id = IdA
               /\ players[MaxPlayersPerRoom].name = << "B", "o" >>
               /\ players[MaxPlayersPerRoom].vote = "5"
               /\ players[MaxPlayersPerRoom].lastSeen = 1
               /\ \E i \in 1..(MaxPlayersPerRoom - 1) : players[i].lastSeen = 0

LeavesWellFormed(request) ==
    /\ request.op = "leave"
    /\ validateRoomCode(request.roomCode)
    /\ validatePlayerId(request.playerId)

\* The players of a list other than the one with the given id, in the order
\* and with the fields they have in the list.
Others(players, id) == SelectSeq(players, LAMBDA q : q.id # id)

\* A well-formed leave of a stored room in which somebody else remains goes
\* on to save the room without the leaver: the other players as they were
\* and in their order, the leaver in no breakout room, no breakout room
\* without players, the other breakout rooms in their order with their
\* other members, and revealed, createdAt and creatorId as stored.
C18_LeaveComputes ==
    \A w \in Workers :
        ( /\ Takes(w)
          /\ LeavesWellFormed(req'[w])
          /\ store[req'[w].roomCode] # None
          /\ Len(Others(store[req'[w].roomCode][1].players,
                        req'[w].playerId)) > 0 )
        => LET before == store[req'[w].roomCode][1]
               after == pending'[w].doc[1]
               p == req'[w].playerId
               kept == SelectSeq(BreakoutsOf(before),
                          LAMBDA br : Len(Others(br.players, p)) > 0)
           IN  /\ pc'[w] = "write"
               /\ pending'[w].status = 200
               /\ pending'[w].write = "set"
               /\ pending'[w].key = req'[w].roomCode
               /\ ~HasId(after.players, p)
               /\ after.players = Others(before.players, p)
               /\ (before.breakoutRooms = None) = (after.breakoutRooms = None)
               /\ Len(BreakoutsOf(after)) = Len(kept)
               /\ \A b \in 1..Len(kept) :
                     /\ BreakoutsOf(after)[b].id = kept[b].id
                     /\ BreakoutsOf(after)[b].revealed = kept[b].revealed
                     /\ BreakoutsOf(after)[b].players = Others(kept[b].players, p)
                     /\ ~HasId(BreakoutsOf(after)[b].players, p)
                     /\ Len(BreakoutsOf(after)[b].players) > 0
               /\ after.revealed = before.revealed
               /\ after.createdAt = before.createdAt
               /\ after.creatorId = before.creatorId
               /\ after.code = before.code

\* The db.set of a leave stores the document the handler computed.
C18_LeaveStores ==
    \A w \in Workers :
        (Writes(w) /\ req[w].op = "leave" /\ pending[w].write = "set")
        => store'[pending[w].key] = pending[w].doc

\* C18: a successful leave that does not empty the room stores a room in
\* which the leaver is absent from the players and from every breakout room,
\* every breakout room left without players is removed, the remaining
\* players keep their order, votes and names, and revealed, createdAt and
\* creatorId are unchanged.
C18_LeaveKeepsTheRest ==
    /\ [][C18_LeaveComputes]_vars
    /\ [][C18_LeaveStores]_vars

\* After a left breakout room br1 and voted 5 in the main room, c has left
\* the room: a (vote 5), b and d remain, and br1, where c was alone, is gone.
C18_Witness ==
    \E w \in Workers :
        /\ Succeeded(w, "leave")
        /\ req[w].playerId = IdC
        /\ store[CodeA] # None
        /\ LET room == store[CodeA][1]
           IN  /\ Len(room.players) = 3
               /\ room.players[1].id = IdA
               /\ room.players[1].vote = "5"
               /\ room.players[2].id = IdB
               /\ room.players[3].id = IdD
               /\ Len(BreakoutsOf(room)) = 1
               /\ BreakoutsOf(room)[1].id = "br2"
               /\ room.creatorId = Some(IdA)

MainRoundOps == {"vote", "reveal", "reset"}

\* A vote, reveal or reset of the main room that goes on to save the room
\* saves it with the breakoutRooms of the room it loaded.
C19_ComputesSameBreakouts ==
    \A w \in Workers :
        ( /\ Takes(w)
          /\ req'[w].op \in MainRoundOps
          /\ pending'[w].write = "set" )
        => /\ store[req'[w].roomCode] # None
           /\ pending'[w].key = req'[w].roomCode
           /\ pending'[w].doc[1].breakoutRooms =
                 store[req'[w].roomCode][1].breakoutRooms

\* With one request at a time, the db.set of a vote, reveal or reset of the
\* main room changes nothing in the stored breakoutRooms.
C19_StoresSameBreakouts ==
    \A w \in Workers, op \in MainRoundOps :
        Saves(w, op) => After(w).breakoutRooms = Before(w).breakoutRooms

\* C19: vote, reveal and reset of the main room leave breakoutRooms
\* unchanged: no breakout room's members, no breakout player's vote and no
\* breakout room's revealed flag is modified by them.
C19_MainRoundKeepsBreakouts ==
    /\ [][C19_ComputesSameBreakouts]_vars
    /\ [][C19_StoresSameBreakouts]_vars

\* A reset of the main room has been answered; the main room is not revealed
\* and holds no vote, while breakout room br1 is still revealed and still
\* holds the vote 5 of a.
C19_Witness ==
    \E w \in Workers :
        /\ Succeeded(w, "reset")
        /\ store[CodeA] # None
        /\ LET room == store[CodeA][1]
           IN  /\ ~room.revealed
               /\ \A i \in 1..Len(room.players) : room.players[i].vote = Null
               /\ HasBreakout(room, "br1")
               /\ BreakoutNamed(room, "br1").revealed
               /\ \E i \in 1..Len(BreakoutNamed(room, "br1").players) :
                     /\ BreakoutNamed(room, "br1").players[i].id = IdA
                     /\ BreakoutNamed(room, "br1").players[i].vote = "5"

BreakoutRoundOps ==
    {"breakout-room/vote", "breakout-room/reveal", "breakout-room/reset"}

\* What the addressed breakout room becomes, by request: a vote changes the
\* vote and lastSeen of the first member with the caller's id, a reveal sets
\* revealed, a reset clears every member's vote and unsets revealed.
C20_Addressed(request, before, after, time) ==
    /\ after.id = before.id
    /\ Len(after.players) = Len(before.players)
    /\ \A i \in 1..Len(before.players) :
          /\ after.players[i].id = before.players[i].id
          /\ after.players[i].name = before.players[i].name
          /\ after.players[i].isObserver = before.players[i].isObserver
    /\ request.op = "breakout-room/vote" =>
          /\ after.revealed = before.revealed
          /\ HasId(before.players, request.playerId)
          /\ LET at == FirstWithId(before.players, request.playerId)
             IN  /\ after.players[at].vote = request.vote
                 /\ after.players[at].lastSeen = time
                 /\ \A i \in 1..Len(before.players) :
                       i # at => after.players[i] = before.players[i]
    /\ request.op = "breakout-room/reveal" =>
          /\ after.revealed
          /\ after.players = before.players
    /\ request.op = "breakout-room/reset" =>
          /\ ~after.revealed
          /\ \A i \in 1..Len(before.players) :
                /\ after.players[i].vote = Null
                /\ after.players[i].lastSeen = before.players[i].lastSeen

\* A breakout vote, reveal or reset that goes on to save the room saves the
\* room it loaded with one breakout room changed, the one with the id of the
\* request: players, revealed flag and the other fields of the main room and
\* every other breakout room are as loaded.
C20_ComputesOneEntry ==
    \A w \in Workers :
        ( /\ Takes(w)
          /\ req'[w].op \in BreakoutRoundOps
          /\ pending'[w].write = "set" )
        => /\ store[req'[w].roomCode] # None
           /\ pending'[w].key = req'[w].roomCode
           /\ pending'[w].status = 200
           /\ LET before == store[req'[w].roomCode][1]
                  after == pending'[w].doc[1]
              IN  /\ after.players = before.players
                  /\ after.revealed = before.revealed
                  /\ after.code = before.code
                  /\ after.createdAt = before.createdAt
                  /\ after.creatorId = before.creatorId
                  /\ HasBreakout(before, req'[w].breakoutRoomId)
                  /\ Len(BreakoutsOf(after)) = Len(BreakoutsOf(before))
                  /\ \A b \in 1..Len(BreakoutsOf(before)) :
                        IF BreakoutsOf(before)[b].id = req'[w].breakoutRoomId
                        THEN C20_Addressed(req'[w], BreakoutsOf(before)[b],
                                           BreakoutsOf(after)[b], now)
                        ELSE BreakoutsOf(after)[b] = BreakoutsOf(before)[b]

\* A well-formed breakout vote, reveal or reset of a stored room that has no
\* breakout room with the id of the request is answered 404 "Breakout room
\* not found" and writes nothing.
C20_UnknownRefused ==
    \A w \in Workers :
        ( /\ Takes(w)
          /\ req'[w].op \in BreakoutRoundOps
          /\ validateRoomCode(req'[w].roomCode)
          /\ IsStringId(req'[w].breakoutRoomId)
          /\ req'[w].op = "breakout-room/vote" =>
                (validatePlayerId(req'[w].playerId) /\ CardOrAbsent(req'[w].vote))
          /\ store[req'[w].roomCode] # None
          /\ ~HasBreakout(store[req'[w].roomCode][1], req'[w].breakoutRoomId) )
        => /\ pending'[w].status = 404
           /\ pending'[w].error = "Breakout room not found"
           /\ pending'[w].write = "none"
           /\ pc'[w] # "write"
           /\ store' = store

\* Only a request that goes through db.set or db.del changes the store, and
\* the db.set of a breakout vote, reveal or reset stores the document the
\* handler computed.
C20_StoresComputed ==
    \A w \in Workers :
        /\ (Writes(w) /\ req[w].op \in BreakoutRoundOps)
              => /\ pending[w].write = "set"
                 /\ store' = [store EXCEPT ![pending[w].key] = pending[w].doc]
        /\ (pc[w] # "write" /\ pc'[w] # pc[w]) => store' = store

\* C20: a breakout vote, reveal or reset changes only the breakout room it
\* addresses: the main room's players with their votes, its revealed flag
\* and every other breakout room are unchanged; the reveal sets only that
\* entry's revealed flag, the reset clears only that entry's votes and
\* unsets its flag, and an unknown breakoutRoomId is answered 404 with the
\* room unchanged.
C20_BreakoutRoundIsLocal ==
    /\ [][C20_ComputesOneEntry]_vars
    /\ [][C20_UnknownRefused]_vars
    /\ [][C20_StoresComputed]_vars

\* A reset of breakout room br1 has been answered: br1 is not revealed and
\* holds no vote, while the main room is revealed and holds the vote 5 of a,
\* and br2, which a joined, is revealed and holds the vote 5 of a.
C20_Witness ==
    \E w \in Workers :
        /\ Succeeded(w, "breakout-room/reset")
        /\ req[w].breakoutRoomId = "br1"
        /\ store[CodeA] # None
        /\ LET room == store[CodeA][1]
           IN  /\ room.revealed
               /\ room.players[1].id = IdA
               /\ room.players[1].vote = "5"
               /\ HasBreakout(room, "br1")
               /\ ~BreakoutNamed(room, "br1").revealed
               /\ \A i \in 1..Len(BreakoutNamed(room, "br1").players) :
                     BreakoutNamed(room, "br1").players[i].vote = Null
               /\ HasBreakout(room, "br2")
               /\ BreakoutNamed(room, "br2").revealed
               /\ \E i \in 1..Len(BreakoutNamed(room, "br2").players) :
                     /\ BreakoutNamed(room, "br2").players[i].id = IdA
                     /\ BreakoutNamed(room, "br2").players[i].vote = "5"

\* A breakout reveal addressed to br9, which the stored room does not have,
\* has been answered 404.
C20_UnknownWitness ==
    \E w \in Workers :
        /\ pc[w] = "done"
        /\ req[w].op = "breakout-room/reveal"
        /\ req[w].breakoutRoomId = "br9"
        /\ store[req[w].roomCode] # None
        /\ pending[w].status = 404
        /\ pending[w].error = "Breakout room not found"

\* numBreakouts is a number from 2 to 10.
C21_InRange(n) ==
    /\ n # None
    /\ n[1] >= 2
    /\ n[1] < 10 \/ (n[1] = 10 /\ Len(n) = 1)

\* The conditions of create-breakout-rooms, on the stored rooms: the room
\* exists, the caller is its creator, numBreakouts is in [2,10], nothing is
\* revealed, no player who is not an observer has a vote, and at least 4
\* players are not observers.
C21_Allowed(request) ==
    /\ request.roomCode \in DOMAIN store
    /\ store[request.roomCode] # None
    /\ LET room == store[request.roomCode][1]
           voters == NonObservers(room.players)
       IN  /\ C6_IsCreator(room, request.playerId)
           /\ C21_InRange(request.numBreakouts)
           /\ ~room.revealed
           /\ \A i \in 1..Len(voters) : voters[i].vote = Null
           /\ Len(voters) >= 4

\* The step at which create-breakout-rooms, received by w, either goes on to
\* its db.set or ends with a refusal.
C21_Decides(w) ==
    /\ pc[w] \in {"idle", "auth"}
    /\ pc'[w] \in {"write", "done"}
    /\ req'[w].op = "create-breakout-rooms"

C21_Decision(w) ==
    C21_Decides(w)
    => /\ store' = store
       /\ IF C21_Allowed(req'[w])
          THEN /\ pc'[w] = "write"
               /\ pending'[w].status = 200
               /\ pending'[w].write = "set"
               /\ pending'[w].key = req'[w].roomCode
          ELSE /\ pc'[w] = "done"
               /\ pending'[w].status >= 400
               /\ pending'[w].write = "none"

\* C21: create-breakout-rooms succeeds if and only if the room exists, the
\* caller is the creator, numBreakouts is in [2,10], revealed is false, no
\* player who is not an observer has a vote, and at least 4 players are not
\* observers; in every other case it is refused and the stored room is
\* unchanged.
C21_SucceedsIff == [][\A w \in Workers : C21_Decision(w)]_vars

\* The same for requests whose numBreakouts is an integer or not a number.
C21_IntegerSucceedsIff ==
    [][\A w \in Workers :
          (req'[w].numBreakouts = None \/ Len(req'[w].numBreakouts) = 1)
          => C21_Decision(w)]_vars

\* The db.set of a request stores the document the request computed from
\* what it loaded, whatever has been saved under the key since.
C22_SaveOverwrites ==
    \A w \in Workers :
        (Writes(w) /\ pending[w].write = "set")
        => /\ store' = [store EXCEPT ![pending[w].key] = pending[w].doc]
           /\ pending' = pending

\* A vote that went on to its db.set is answered 200, whatever the other
\* request does in between.
C22_BothSucceed ==
    \A w \in Workers :
        (req[w].op = "vote" /\ pending[w].write = "set")
        => /\ pc[w] \in {"write", "publish", "done"}
           /\ pending[w].status = 200

\* C22: of two commands on one room code that both load before either
\* saves, both return success and the stored room is the later saver's
\* result, without the effect of the earlier one: two such votes by
\* different players leave a stored room with one of the two votes absent.
C22_LostUpdate ==
    /\ [][C22_SaveOverwrites]_vars
    /\ [] C22_BothSucceed

\* Players a and b of one room have each voted 5 and each been answered
\* 200; the stored room holds the vote of one of them and no vote of the
\* other.
C22_Witness ==
    /\ \A w \in Workers :
          /\ Succeeded(w, "vote")
          /\ req[w].roomCode = CodeA
          /\ req[w].vote = "5"
    /\ {req[w].playerId : w \in Workers} = {IdA, IdB}
    /\ store[CodeA] # None
    /\ LET players == store[CodeA][1].players
       IN  /\ HasId(players, IdA) /\ HasId(players, IdB)
           /\ \E i, j \in 1..Len(players) :
                 /\ {players[i].id, players[j].id} = {IdA, IdB}
                 /\ players[i].vote = "5"
                 /\ players[j].vote = Null

\* The step of a request through publishRoomUpdate ends the request with
\* the response it had before the step and leaves the store as it was.
C23_PublishKeepsResult ==
    \A w \in Workers :
        (pc[w] = "publish" /\ pc'[w] # "publish")
        => /\ pc'[w] = "done"
           /\ pending'[w] = pending[w]
           /\ req'[w] = req[w]
           /\ store' = store

\* A request that has saved and been answered was answered 200 with the
\* document it saved, whatever is on the channel.
C23_SavedIsAnswered ==
    \A w \in Workers :
        (pc[w] = "done" /\ pending[w].write \in {"set", "del"})
        => /\ pending[w].status = 200
           /\ pending[w].error = ""
           /\ pending[w].write = "set" => store[pending[w].key] = pending[w].doc
           /\ pending[w].write = "del" => store[pending[w].key] = None

\* C23: a failure of the notification never fails the command: the response
\* and the stored room are the same whether publishRoomUpdate publishes,
\* throws or is skipped.
C23_NotifyNeverFails ==
    /\ [][C23_PublishKeepsResult]_vars
    /\ [] C23_SavedIsAnswered

\* A vote of 5 has been answered 200 and is stored, while the channel of the
\* room still carries an earlier state of the room: the notification of the
\* vote was not published.
C23_Witness ==
    \E w \in Workers :
        /\ Succeeded(w, "vote")
        /\ req[w].vote = "5"
        /\ store[CodeA] # None
        /\ \E i \in 1..Len(store[CodeA][1].players) :
              /\ store[CodeA][1].players[i].id = req[w].playerId
              /\ store[CodeA][1].players[i].vote = "5"
        /\ published[CodeA] # None
        /\ published[CodeA] # store[CodeA]
        /\ pending[w].body = store[CodeA]

\* The commands that change the room on behalf of the player they name.
C24_PlayerOps ==
    {"join-room", "vote", "breakout-room/vote", "join-breakout-room",
     "leave-breakout-room", "create-breakout-rooms", "delete-breakout-rooms"}

\* C24: every successful join-room of a player of the room, vote, breakout
\* vote, join-breakout-room, leave-breakout-room, create-breakout-rooms and
\* delete-breakout-rooms saves the room with the lastSeen of the caller's
\* entry in the players of the room at the time of the command.
C24_LastSeenAdvances ==
    [][ \A w \in Workers :
          ( /\ pc[w] \in {"idle", "auth"}
            /\ pc'[w] = "write"
            /\ req'[w].op \in C24_PlayerOps
            /\ pending'[w].write = "set"
            /\ HasId(pending'[w].doc[1].players, req'[w].playerId) )
          => LET players == pending'[w].doc[1].players
             IN  players[FirstWithId(players, req'[w].playerId)].lastSeen
                    = now ]_vars

\* The same for join-room and vote alone.
C24_JoinAndVoteAdvance ==
    [][ \A w \in Workers :
          ( /\ pc[w] = "idle"
            /\ pc'[w] = "write"
            /\ req'[w].op \in {"join-room", "vote"}
            /\ pending'[w].write = "set"
            /\ HasId(pending'[w].doc[1].players, req'[w].playerId) )
          => LET players == pending'[w].doc[1].players
             IN  players[FirstWithId(players, req'[w].playerId)].lastSeen
                    = now ]_vars

C25_NoObserverInBreakout ==
    \A c \in StoredCodes :
        \A b \in 1..Len(BreakoutsOf(store[c][1])) :
            \A i \in 1..Len(BreakoutsOf(store[c][1])[b].players) :
                ~BreakoutsOf(store[c][1])[b].players[i].isObserver

\* A request that loads a stored room and goes on with a document (to the
\* creator check, or to its db.set or db.del) goes on with the createdAt
\* and the code of the room it loaded.
C26_LoadKeepsOrigin ==
    \A w \in Workers :
        ( /\ Takes(w)
          /\ req'[w].op # "create-room"
          /\ req'[w].roomCode \in DOMAIN store
          /\ store[req'[w].roomCode] # None
          /\ pending'[w].doc # None )
        => /\ pending'[w].doc[1].createdAt = store[req'[w].roomCode][1].createdAt
           /\ pending'[w].doc[1].code = store[req'[w].roomCode][1].code
           /\ pending'[w].key = req'[w].roomCode

\* The creator check passes the loaded createdAt and code on to the db.set.
C26_CheckKeepsOrigin ==
    \A w \in Workers :
        (pc[w] = "auth" /\ pc'[w] = "write")
        => /\ pending'[w].doc[1].createdAt = pending[w].doc[1].createdAt
           /\ pending'[w].doc[1].code = pending[w].doc[1].code
           /\ pending'[w].key = pending[w].key

\* With one request at a time, a db.set over a stored room leaves the stored
\* createdAt and code as they were.
C26_SaveKeepsOrigin ==
    \A w \in Workers :
        ( /\ Writes(w)
          /\ pending[w].write = "set"
          /\ store[pending[w].key] # None )
        => /\ store'[pending[w].key] # None
           /\ store'[pending[w].key][1].createdAt = store[pending[w].key][1].createdAt
           /\ store'[pending[w].key][1].code = store[pending[w].key][1].code

\* C26: from the creation of a room to its deletion no command changes its
\* createdAt or its code: join-room, vote, reveal, reset, leave and the
\* breakout commands save a document with the createdAt and the code of the
\* document they loaded.
C26_OriginIsImmutable ==
    /\ [][C26_LoadKeepsOrigin]_vars
    /\ [][C26_CheckKeepsOrigin]_vars
    /\ [][C26_SaveKeepsOrigin]_vars

\* At time 1 player a has voted 5 in the room created at time 0: the vote is
\* stored with lastSeen 1, and the room still has createdAt 0 and its code.
C26_Witness ==
    \E w \in Workers :
        /\ Succeeded(w, "vote")
        /\ req[w].playerId = IdA
        /\ now = 1
        /\ store[CodeA] # None
        /\ store[CodeA][1].createdAt = 0
        /\ store[CodeA][1].code = CodeA
        /\ \E i \in 1..Len(store[CodeA][1].players) :
              /\ store[CodeA][1].players[i].id = IdA
              /\ store[CodeA][1].players[i].vote = "5"
              /\ store[CodeA][1].players[i].lastSeen = 1

\* create-room never makes more than 10 retries, that is 11 lookups.
C27_AtMostTenRetries == \A w \in Workers : attempts[w] <= 10

\* Every lookup after the first counts as one retry, so the loop cannot go
\* on for ever; it goes round again only after a lookup that found a room.
C27_RetriesAreCounted ==
    \A w \in Workers :
        /\ pc[w] = "codeRetry"
              => \/ pc'[w] = pc[w] /\ attempts'[w] = attempts[w]
                 \/ attempts'[w] = attempts[w] + 1
        /\ (pc[w] # "codeRetry" /\ pc'[w] = "codeRetry")
              => pc[w] = "idle" /\ attempts'[w] = 0
        /\ pc'[w] = "codeRetry"
              => attempts'[w] < 10 /\ StoredCodes # {} /\ store' = store

\* The loop ends either with a refusal, after the 11th lookup found a room,
\* without storing anything, or on its way to store the room under the code
\* that the last lookup found absent.
C27_LoopEnds ==
    \A w \in Workers :
        ( /\ pc[w] \in {"idle", "codeRetry"}
          /\ pc'[w] \notin {"idle", "codeRetry"}
          /\ req'[w].op = "create-room"
          /\ validatePlayerName(req'[w].playerName)
          /\ validatePlayerId(req'[w].playerId) )
        => /\ store' = store
           /\ \/ /\ pc'[w] = "done"
                 /\ pending'[w].status = 500
                 /\ pending'[w].error = "Failed to generate unique room code"
                 /\ pending'[w].write = "none"
                 /\ attempts'[w] = 10
                 /\ StoredCodes # {}
              \/ /\ pc'[w] = "write"
                 /\ pending'[w].status = 200
                 /\ pending'[w].write = "set"
                 /\ store[pending'[w].key] = None
                 /\ C2_FreshRoom(pending'[w].doc[1], pending'[w].key, req'[w])

\* A create-room that was refused has stored nothing: it never was at db.set.
C27_RefusedStoresNothing ==
    \A w \in Workers :
        (req[w].op = "create-room" /\ pending[w].status = 500)
        => pc[w] = "done" /\ pending[w].write = "none"

\* C27: create-room always terminates: after the first generated code it
\* retries at most 10 times (11 lookups); if every generated code is the
\* code of a stored room it fails with an error and stores nothing,
\* otherwise it stores the room under the first code found absent.
C27_CodeLoopIsBounded ==
    /\ [] C27_AtMostTenRetries
    /\ [][C27_RetriesAreCounted]_vars
    /\ [][C27_LoopEnds]_vars
    /\ [] C27_RefusedStoresNothing
    /\ \A w \in Workers : (pc[w] = "codeRetry") ~> (pc[w] \in {"write", "done"})

\* With rooms stored under both codes that can be drawn, a create-room has
\* been refused after 10 retries, and both rooms are as they were created.
C27_Witness ==
    \E w \in Workers :
        /\ Refused(w, "create-room", "Failed to generate unique room code")
        /\ attempts[w] = 10
        /\ StoredCodes = RoomCodes
        /\ \A c \in RoomCodes : Len(store[c][1].players) = 1

\* A create-room has stored its room under the second code after retries.
C27_RetryWitness ==
    \E w \in Workers :
        /\ Succeeded(w, "create-room")
        /\ attempts[w] > 1
        /\ store[pending[w].key] = pending[w].doc

\* The breakout rooms brs are built from the players of the room alone: the
\* i-th of the players who are not observers, as it stands in the room, is
\* in place (i-1) div k of breakout room (i-1) mod k, nobody else is in a
\* breakout room, and every breakout room is new: made at the given time,
\* not revealed, without a vote.
C28_BuiltFrom(players, brs, time) ==
    LET voters == NonObservers(players)
        k == Len(brs)
    IN  /\ k >= 2
        /\ \A b \in 1..k :
              /\ brs[b].revealed = FALSE
              /\ brs[b].createdAt = time
              /\ \A i \in 1..Len(brs[b].players) : brs[b].players[i].vote = Null
              /\ Len(brs[b].players) =
                    Cardinality({i \in 1..Len(voters) : (i - 1) % k = b - 1})
        /\ \A i \in 1..Len(voters) :
              brs[((i - 1) % k) + 1].players[((i - 1) \div k) + 1] = voters[i]

\* A create-breakout-rooms that passes the creator check and goes on to its
\* db.set saves the stored room with its players and revealed flag as they
\* are and with breakout rooms built from those players alone.
C28_ComputesNewBreakouts ==
    \A w \in Workers :
        ( /\ pc[w] = "auth"
          /\ pc'[w] = "write"
          /\ req[w].op = "create-breakout-rooms"
          /\ store[req[w].roomCode] # None )
        => LET before == store[req[w].roomCode][1]
               after == pending'[w].doc[1]
           IN  /\ pending'[w].write = "set"
               /\ pending'[w].key = req[w].roomCode
               /\ after.players = before.players
               /\ after.revealed = before.revealed
               /\ after.breakoutRooms # None
               /\ C28_BuiltFrom(before.players, BreakoutsOf(after), now)

\* The db.set of create-breakout-rooms stores the document computed.
C28_StoresNewBreakouts ==
    \A w \in Workers :
        (Writes(w) /\ req[w].op = "create-breakout-rooms")
        => store' = [store EXCEPT ![pending[w].key] = pending[w].doc]

\* C28: a successful create-breakout-rooms replaces the breakoutRooms the
\* room had wholesale: no earlier breakout room, membership or breakout vote
\* survives; every new breakout room has revealed = false and only players
\* without a vote; the players and the revealed flag of the main room are
\* unchanged.
C28_BreakoutsReplaced ==
    /\ [][C28_ComputesNewBreakouts]_vars
    /\ [][C28_StoresNewBreakouts]_vars

\* At time 1 the creator a has created breakout rooms again, over the ones
\* made at time 0: the room has two breakout rooms, both made at time 1, not
\* revealed, [a, c] and [b, d], without a vote.
C28_Witness ==
    \E w \in Workers :
        /\ Succeeded(w, "create-breakout-rooms")
        /\ store[CodeA] # None
        /\ LET brs == BreakoutsOf(store[CodeA][1])
           IN  /\ Len(brs) = 2
               /\ \A b \in 1..2 :
                     /\ brs[b].createdAt = 1
                     /\ ~brs[b].revealed
                     /\ \A i \in 1..Len(brs[b].players) :
                           brs[b].players[i].vote = Null
               /\ [i \in 1..2 |-> brs[1].players[i].id] = << IdA, IdC >>
               /\ [i \in 1..2 |-> brs[2].players[i].id] = << IdB, IdD >>
               /\ Len(brs[1].players) = 2 /\ Len(brs[2].players) = 2

JoinsBreakoutWellFormed(request) ==
    /\ request.op = "join-breakout-room"
    /\ validateRoomCode(request.roomCode)
    /\ validatePlayerId(request.playerId)
    /\ IsStringId(request.breakoutRoomId)

\* How many entries of a list have the given id.
Times(players, id) == Len(SelectSeq(players, LAMBDA q : q.id = id))

\* A well-formed join-breakout-room of a stored room whose players do not
\* include the caller, or which has no breakout room of the given id, is
\* answered 404 and writes nothing.
C29_Refuses ==
    \A w \in Workers :
        ( /\ Takes(w)
          /\ JoinsBreakoutWellFormed(req'[w])
          /\ store[req'[w].roomCode] # None
          /\ \/ ~HasId(store[req'[w].roomCode][1].players, req'[w].playerId)
             \/ ~HasBreakout(store[req'[w].roomCode][1], req'[w].breakoutRoomId) )
        => /\ pc'[w] = "done"
           /\ pending'[w].status = 404
           /\ pending'[w].write = "none"
           /\ store' = store

\* Otherwise it goes on to save the room with the caller once in the
\* breakout room of the given id and in no other, the other members of
\* every breakout room as they were, and the players of the room unchanged.
C29_Joins ==
    \A w \in Workers :
        ( /\ Takes(w)
          /\ JoinsBreakoutWellFormed(req'[w])
          /\ store[req'[w].roomCode] # None
          /\ HasId(store[req'[w].roomCode][1].players, req'[w].playerId)
          /\ HasBreakout(store[req'[w].roomCode][1], req'[w].breakoutRoomId) )
        => LET before == store[req'[w].roomCode][1]
               after == pending'[w].doc[1]
               p == req'[w].playerId
           IN  /\ pc'[w] = "write"
               /\ pending'[w].status = 200
               /\ pending'[w].write = "set"
               /\ pending'[w].key = req'[w].roomCode
               /\ after.players = before.players
               /\ Len(BreakoutsOf(after)) = Len(BreakoutsOf(before))
               /\ \A b \in 1..Len(BreakoutsOf(before)) :
                     /\ BreakoutsOf(after)[b].id = BreakoutsOf(before)[b].id
                     /\ Others(BreakoutsOf(after)[b].players, p) =
                           Others(BreakoutsOf(before)[b].players, p)
                     /\ Times(BreakoutsOf(after)[b].players, p) =
                           IF BreakoutsOf(before)[b].id = req'[w].breakoutRoomId
                           THEN 1 ELSE 0

\* The db.set of join-breakout-room stores the document computed.
C29_Stores ==
    \A w \in Workers :
        (Writes(w) /\ req[w].op = "join-breakout-room")
        => store' = [store EXCEPT ![pending[w].key] = pending[w].doc]

\* C29: join-breakout-room is answered 404, with the room unchanged, when
\* the caller is not a player of the room or the breakout room does not
\* exist; when it succeeds the caller is exactly once in that breakout room
\* and in no other, the other members of every breakout room are unchanged,
\* and the players of the room are unchanged.
C29_JoinBreakoutRoom ==
    /\ [][C29_Refuses]_vars
    /\ [][C29_Joins]_vars
    /\ [][C29_Stores]_vars

\* A well-formed leave-breakout-room of a stored room, whoever the caller
\* is, goes on to save the room with the caller taken out of the players of
\* every breakout room and everything else as stored.
C30_LeaveComputes ==
    \A w \in Workers :
        ( /\ Takes(w)
          /\ req'[w].op = "leave-breakout-room"
          /\ validateRoomCode(req'[w].roomCode)
          /\ validatePlayerId(req'[w].playerId)
          /\ store[req'[w].roomCode] # None )
        => LET before == store[req'[w].roomCode][1]
               after == pending'[w].doc[1]
               p == req'[w].playerId
           IN  /\ pc'[w] = "write"
               /\ pending'[w].status = 200
               /\ pending'[w].write = "set"
               /\ pending'[w].key = req'[w].roomCode
               /\ after.players = before.players
               /\ after.revealed = before.revealed
               /\ after.createdAt = before.createdAt
               /\ after.creatorId = before.creatorId
               /\ after.code = before.code
               /\ Len(BreakoutsOf(after)) = Len(BreakoutsOf(before))
               /\ \A b \in 1..Len(BreakoutsOf(before)) :
                     /\ ~HasId(BreakoutsOf(after)[b].players, p)
                     /\ BreakoutsOf(after)[b] =
                           [BreakoutsOf(before)[b] EXCEPT
                               !.players = Others(@, p)]

\* The db.set of leave-breakout-room stores the document computed.
C30_LeaveStores ==
    \A w \in Workers :
        (Writes(w) /\ req[w].op = "leave-breakout-room")
        => store' = [store EXCEPT ![pending[w].key] = pending[w].doc]

\* C30: a successful leave-breakout-room removes the caller from the
\* players of every breakout room and changes nothing else: the players,
\* votes and revealed flag of the room and the other members, votes and
\* revealed flags of the breakout rooms are unchanged; it succeeds also when
\* the caller is in no breakout room or is not a player of the room.
C30_LeaveBreakoutRoom ==
    /\ [][C30_LeaveComputes]_vars
    /\ [][C30_LeaveStores]_vars

\* Player a, who has left the room, has been answered 200 to a
\* leave-breakout-room: a is neither in the room nor in a breakout room,
\* and br1 is still revealed and still holds c with its vote 5.
C30_Witness ==
    \E w \in Workers :
        /\ Succeeded(w, "leave-breakout-room")
        /\ req[w].playerId = IdA
        /\ store[CodeA] # None
        /\ LET room == store[CodeA][1]
           IN  /\ ~HasId(room.players, IdA)
               /\ HasBreakout(room, "br1")
               /\ BreakoutNamed(room, "br1").revealed
               /\ Len(BreakoutNamed(room, "br1").players) = 1
               /\ BreakoutNamed(room, "br1").players[1].id = IdC
               /\ BreakoutNamed(room, "br1").players[1].vote = "5"
               /\ HasBreakout(room, "br2")

\* A well-formed delete-breakout-rooms of a stored room comes to the creator
\* check.
C31_ComesToCheck ==
    \A w \in Workers :
        ( /\ Takes(w)
          /\ req'[w].op = "delete-breakout-rooms"
          /\ validateRoomCode(req'[w].roomCode)
          /\ validatePlayerId(req'[w].playerId)
          /\ store[req'[w].roomCode] # None )
        => pc'[w] = "auth" /\ store' = store

\* When the caller is the creator of the stored room the check is passed,
\* whatever the breakout rooms hold, and the handler goes on to save the room
\* with no breakout room and with its players, their votes and its revealed
\* flag as stored.
C31_CreatorDeletes ==
    \A w \in Workers :
        ( /\ pc[w] = "auth"
          /\ pc'[w] # "auth"
          /\ req[w].op = "delete-breakout-rooms"
          /\ store[req[w].roomCode] # None
          /\ C6_IsCreator(store[req[w].roomCode][1], req[w].playerId) )
        => LET before == store[req[w].roomCode][1]
               after == pending'[w].doc[1]
           IN  /\ pc'[w] = "write"
               /\ pending'[w].status = 200
               /\ pending'[w].write = "set"
               /\ pending'[w].key = req[w].roomCode
               /\ after.breakoutRooms = Some(<<>>)
               /\ after.players = before.players
               /\ after.revealed = before.revealed
               /\ after.createdAt = before.createdAt
               /\ after.creatorId = before.creatorId

\* The db.set of delete-breakout-rooms stores the document computed.
C31_DeleteStores ==
    \A w \in Workers :
        (Writes(w) /\ req[w].op = "delete-breakout-rooms")
        => store' = [store EXCEPT ![pending[w].key] = pending[w].doc]

\* C31: delete-breakout-rooms by the creator always succeeds on a stored
\* room and leaves breakoutRooms empty, whatever breakout votes were cast
\* and whichever breakout rooms were revealed; the players of the room,
\* their votes and the revealed flag are unchanged.
C31_DeleteBreakoutRooms ==
    /\ [][C31_ComesToCheck]_vars
    /\ [][C31_CreatorDeletes]_vars
    /\ [][C31_DeleteStores]_vars

\* The creator's delete-breakout-rooms is about to be saved: the stored room
\* still has breakout room br1, revealed and holding a vote 5, and the
\* document to save has no breakout room and the main vote 5 of a.
C31_Witness ==
    \E w \in Workers :
        /\ pc[w] = "write"
        /\ req[w].op = "delete-breakout-rooms"
        /\ pending[w].status = 200
        /\ pending[w].doc[1].breakoutRooms = Some(<<>>)
        /\ \E i \in 1..Len(pending[w].doc[1].players) :
              /\ pending[w].doc[1].players[i].id = IdA
              /\ pending[w].doc[1].players[i].vote = "5"
        /\ store[CodeA] # None
        /\ HasBreakout(store[CodeA][1], "br1")
        /\ BreakoutNamed(store[CodeA][1], "br1").revealed
        /\ \E i \in 1..Len(BreakoutNamed(store[CodeA][1], "br1").players) :
              BreakoutNamed(store[CodeA][1], "br1").players[i].vote = "5"

\* The creator's delete-breakout-rooms has been answered 200 and the stored
\* room has no breakout room.
C31_DoneWitness ==
    \E w \in Workers :
        /\ Succeeded(w, "delete-breakout-rooms")
        /\ store[CodeA] # None
        /\ store[CodeA][1].breakoutRooms = Some(<<>>)
        /\ store[CodeA][1].revealed

\* The creator of a stored room as the claim defines it: the id equal to
\* creatorId when the room has one, else the id of the first of its players.
C32_Creator(room, playerId) ==
    IF room.creatorId # None
    THEN playerId = room.creatorId[1]
    ELSE Len(room.players) > 0 /\ playerId = room.players[1].id

C32_ForbiddenErrors ==
    {"Only room creator can create breakout rooms",
     "Only room creator can delete breakout rooms"}

\* The creator check of create-breakout-rooms and delete-breakout-rooms
\* refuses the caller with 403 exactly when the caller is not the creator of
\* the stored room.
C32_CheckIsPredicate ==
    \A w \in Workers :
        ( /\ pc[w] = "auth"
          /\ pc'[w] # "auth"
          /\ store[req[w].roomCode] # None )
        => ( ( /\ pending'[w].status = 403
               /\ pending'[w].error \in C32_ForbiddenErrors )
             <=> ~C32_Creator(store[req[w].roomCode][1], req[w].playerId) )

\* The creatorId of a stored room is set only by the save of a join-room or
\* of a create-breakout-rooms, to the id of the player then first, and once
\* set is not changed while the room is stored.
C32_FixedOnce ==
    \A c \in StoredCodes :
        (store[c] # None /\ store'[c] # None)
        => /\ store[c][1].creatorId # None
                 => store'[c][1].creatorId = store[c][1].creatorId
           /\ (store[c][1].creatorId = None /\ store'[c][1].creatorId # None)
                 => /\ \E w \in Workers :
                          /\ Writes(w)
                          /\ req[w].op \in {"join-room",
                                            "create-breakout-rooms"}
                    /\ store'[c][1].creatorId
                          = Some(store[c][1].players[1].id)

\* The save of a join-room or of a create-breakout-rooms stores a room with
\* a creatorId.
C32_JoinAndCreateFix ==
    \A w \in Workers :
        ( /\ Writes(w)
          /\ pending[w].write = "set"
          /\ req[w].op \in {"join-room", "create-breakout-rooms"} )
        => /\ store'[pending[w].key] # None
           /\ store'[pending[w].key][1].creatorId # None

C32_FixedWitness ==
    \E w \in Workers :
        /\ Refused(w, "delete-breakout-rooms",
                   "Only room creator can delete breakout rooms")
        /\ req[w].playerId = IdA
        /\ store[CodeA] # None
        /\ store[CodeA][1].creatorId = Some(IdB)
        /\ store[CodeA][1].players[1].id = IdA

\* On the room still without creatorId b has left, and the
\* delete-breakout-rooms of a, now first, has succeeded.
C32_LegacyWitness ==
    \E w \in Workers :
        /\ Succeeded(w, "delete-breakout-rooms")
        /\ req[w].playerId = IdA
        /\ store[CodeA] # None
        /\ store[CodeA][1].creatorId = None

\* The steps of one command come in order: its db.set or db.del is reached
\* from the handler's decision and made once, the session tracking comes
\* after it, the publishRoomUpdate after both, and the response after that.
C33_StepsInOrder ==
    \A w \in Workers :
        /\ (pc'[w] = "write" /\ pc[w] # "write")
              => pc[w] \in {"idle", "auth", "codeRetry"}
        /\ (pc[w] = "write" /\ pc'[w] # "write")
              => /\ pc'[w] \in {"session", "publish"}
                 /\ store' = [store EXCEPT ![pending[w].key] =
                                 IF pending[w].write = "del" THEN None
                                 ELSE pending[w].doc]
                 /\ published' = published
        /\ (pc[w] = "session" /\ pc'[w] # "session")
              => pc'[w] \in {"publish", "done"} /\ store' = store
        /\ (pc'[w] = "publish" /\ pc[w] # "publish")
              => pc[w] \in {"write", "session"}
        /\ (pc[w] = "publish" /\ pc'[w] # "publish")
              => /\ pc'[w] = "done"
                 /\ store' = store
                 /\ pending'[w] = pending[w]
                 /\ \/ published' = published
                    \/ published' = [published EXCEPT ![pending[w].key] =
                                        pending[w].doc]

\* The store changes only by the db.set or db.del step of a command and the
\* published state only by its publishRoomUpdate step.
C33_OnlyByThoseSteps ==
    /\ store' # store => \E w \in Workers : Writes(w)
    /\ published' # published
          => \E w \in Workers : pc[w] = "publish" /\ pc'[w] = "done"

\* A command answered 400, 403 or 404 is answered from the handler's decision:
\* it has made no db.set, no db.del and no publishRoomUpdate.
C33_RejectedDoesNothing ==
    \A w \in Workers :
        (Answers(w) /\ pending'[w].status \in {400, 403, 404})
        => /\ pc[w] \in {"idle", "auth"}
           /\ store' = store
           /\ published' = published

\* A command other than GET /room that is answered 200 is answered from its
\* publishRoomUpdate.
C33_SucceededDidBoth ==
    \A w \in Workers :
        (Answers(w) /\ pending'[w].status = 200 /\ req'[w].op # "room")
        => pc[w] = "publish"

\* A command at its publishRoomUpdate has succeeded and is about to publish
\* the room it has stored, or, after a db.del, the room without players.
C33_CarriesWritten ==
    \A w \in Workers :
        pc[w] = "publish"
        => /\ pending[w].status = 200
           /\ pending[w].write \in {"set", "del"}
           /\ pending[w].write = "set"
                 => store[pending[w].key] = pending[w].doc
           /\ pending[w].write = "del"
                 => /\ store[pending[w].key] = None
                    /\ Len(pending[w].doc[1].players) = 0

C33_FullWitness ==
    \E w \in Workers :
        /\ pc[w] = "done"
        /\ req[w].op = "join-room"
        /\ req[w].roomCode = CodeB
        /\ pending[w].status = 400
        /\ published[CodeB] = None

\* The last player has left: the room is deleted and the room published
\* last has no players.
C33_DeletedWitness ==
    \E w \in Workers :
        /\ Succeeded(w, "leave")
        /\ store[CodeA] = None
        /\ published[CodeA] # None
        /\ Len(published[CodeA][1].players) = 0

\* C34: deletion is terminal also under concurrency: once the leave of the
\* last player has deleted the room, no command that loaded the room before
\* the deletion makes it active again by saving its copy; a code with no
\* stored room gets one only by the save of a join-room or create-room.
C34_AbsentUntilJoinOrCreate ==
    \A c \in RoomCodes :
        (store[c] = None /\ store'[c] # None)
        => \E w \in Workers :
              /\ Writes(w)
              /\ pending[w].key = c
              /\ req[w].op \in {"join-room", "create-room"}

C34_DeletionIsTerminal == [][C34_AbsentUntilJoinOrCreate]_vars

\* C35: under interleaved commands every player whose join-room or
\* create-room was answered with success is among the players of the stored
\* room until a leave for that id succeeds; in particular, when two
\* join-room requests with different ids on the same code have both been
\* answered with success, both ids are players of the stored room.
C35_BothJoinersStored ==
    \A w, v \in Workers :
        ( /\ w # v
          /\ Succeeded(w, "join-room")
          /\ Succeeded(v, "join-room")
          /\ pending[w].key = pending[v].key
          /\ Trim(req[w].playerId) # Trim(req[v].playerId) )
        => /\ store[pending[w].key] # None
           /\ HasId(store[pending[w].key][1].players, Trim(req[w].playerId))
           /\ HasId(store[pending[w].key][1].players, Trim(req[v].playerId))

\* C36: whenever no command is in flight, the room carried by the most
\* recent notification published for a code is the document stored under
\* that code, or has no players when the room is deleted, whatever the
\* interleaving of the save and publish steps.
C36_LastNotificationIsStored ==
    AllIdle
    => \A c \in RoomCodes :
          published[c] # None
          => IF store[c] # None
             THEN published[c] = store[c]
             ELSE Len(published[c][1].players) = 0

\* C37: in every stored room at least one of the current players passes the
\* creator check, also after the recorded creator has left the room.
C37_SomeMemberIsCreator ==
    \A c \in StoredCodes :
        \E i \in 1..Len(store[c][1].players) :
            C32_Creator(store[c][1], store[c][1].players[i].id)

\* Worker w takes a join-breakout-room that goes on to save the room.
C38_Joins(w) ==
    /\ Takes(w)
    /\ req'[w].op = "join-breakout-room"
    /\ pending'[w].write = "set"
    /\ store[req'[w].roomCode] # None

\* A caller who is not in the target breakout room enters it, last, with the
\* record the room's players hold for the caller at that time, vote
\* included, whether or not the breakout room is revealed, and is left in no
\* other breakout room.
C38_NewcomerBringsMainRecord ==
    \A w \in Workers :
        C38_Joins(w)
        => LET before == store[req'[w].roomCode][1]
               after == pending'[w].doc[1]
               p == req'[w].playerId
               t == req'[w].breakoutRoomId
               main == before.players[FirstWithId(before.players, p)]
           IN  ~HasId(BreakoutNamed(before, t).players, p)
               => /\ BreakoutNamed(after, t).players
                        = Append(BreakoutNamed(before, t).players, main)
                  /\ BreakoutNamed(after, t).revealed
                        = BreakoutNamed(before, t).revealed
                  /\ \A b \in 1..Len(BreakoutsOf(after)) :
                        BreakoutsOf(after)[b].id # t
                        => ~HasId(BreakoutsOf(after)[b].players, p)
                  /\ after.players = before.players

\* A caller who is already in the target breakout room keeps the record,
\* and so the vote, held there.
C38_MemberKeepsBreakoutVote ==
    \A w \in Workers :
        C38_Joins(w)
        => LET before == store[req'[w].roomCode][1]
               after == pending'[w].doc[1]
               p == req'[w].playerId
               t == req'[w].breakoutRoomId
           IN  HasId(BreakoutNamed(before, t).players, p)
               => /\ BreakoutNamed(after, t).players
                        = BreakoutNamed(before, t).players
                  /\ after.players = before.players

\* C38: join-breakout-room inserts the caller's main-room record as it is at
\* join time: a caller not yet in the target enters with the current
\* main-room vote as breakout vote, also when the target is revealed, and
\* the vote held in the breakout room left is discarded; a caller already
\* in the target keeps the breakout vote.
C38_JoinCarriesMainVote ==
    /\ [][C38_NewcomerBringsMainRecord]_vars
    /\ [][C38_MemberKeepsBreakoutVote]_vars

\* a, whose main-room vote is 5 and who held no vote in br1, has joined the
\* revealed br2 and is there with vote 5.
C38_Witness ==
    \E w \in Workers :
        /\ Succeeded(w, "join-breakout-room")
        /\ req[w].playerId = IdA
        /\ req[w].breakoutRoomId = "br2"
        /\ store[CodeA] # None
        /\ HasBreakout(store[CodeA][1], "br2")
        /\ BreakoutNamed(store[CodeA][1], "br2").revealed
        /\ LET brPlayers == BreakoutNamed(store[CodeA][1], "br2").players
               me == brPlayers[Len(brPlayers)]
           IN  /\ me.id = IdA
               /\ me.vote = "5"
               /\ Times(brPlayers, IdA) = 1
        /\ \E i \in 1..Len(store[CodeA][1].players) :
              /\ store[CodeA][1].players[i].id = IdA
              /\ store[CodeA][1].players[i].vote = "5"

\* a has joined br1 again while in it: the breakout vote 5 is kept although
\* the main-room vote of a is absent.
C38_KeptWitness ==
    \E w \in Workers :
        /\ Succeeded(w, "join-breakout-room")
        /\ req[w].playerId = IdA
        /\ req[w].breakoutRoomId = "br1"
        /\ store[CodeA] # None
        /\ HasBreakout(store[CodeA][1], "br1")
        /\ \E i \in 1..Len(BreakoutNamed(store[CodeA][1], "br1").players) :
              /\ BreakoutNamed(store[CodeA][1], "br1").players[i].id = IdA
              /\ BreakoutNamed(store[CodeA][1], "br1").players[i].vote = "5"
        /\ \E i \in 1..Len(store[CodeA][1].players) :
              /\ store[CodeA][1].players[i].id = IdA
              /\ store[CodeA][1].players[i].vote = Null

\* A request is answered with an error only from a point of its handler
\* that comes before every db.set and db.del, and the answer itself changes
\* nothing in the store.
C39_ErrorOnlyBeforeWrite ==
    \A w \in Workers :
        (Answers(w) /\ pending'[w].status # 200)
        => /\ pc[w] \in {"idle", "auth", "codeRetry"}
           /\ store' = store

\* The store changes only by the db.set or db.del step of a request.
C39_StoreChangesByWrite ==
    store' # store => \E w \in Workers : Writes(w)

\* C39: every request that is answered with an error leaves the store as it
\* was; in particular a create-room answered with an error has stored no
\* room, also when the session tracking fails after the room was saved.
C39_ErrorsLeaveStore ==
    /\ [][C39_ErrorOnlyBeforeWrite]_vars
    /\ [][C39_StoreChangesByWrite]_vars

=============================================================================
